---- MODULE Spec2Model ----
(***************************************************************************)
(* A model of the file browser extension: the search session               *)
(* (SearchBrowser, its debounce timer and its external processes), the     *)
(* pinned-item list (FileBrowser.togglePin over the global key-value       *)
(* store) and the navigator's path transitions (FileBrowser.update).       *)
(***************************************************************************)
EXTENDS Integers, Sequences, FiniteSets, TLC

VARIABLES
    \* ---- SearchBrowser
    searchValue,        \* this.current.value of the search picker
    searchItems,        \* this.current.items of the search picker
    quickPickValue,     \* this.quickPickValue
    dirs,               \* this.dirs
    originalFileDirectory, \* this.originalFileDirectory
    searchFileNameOnly, \* this.searchFileNameOnly
    quickPickButtons,   \* icon ids of this.quickPickButtons[0..1]
    scrollBack,         \* this.scrollBack (labels of the history items)
    currentProcess,     \* this.currentProcess: index into procs, 0 = undefined
    disposed,           \* the search picker has been hidden and disposed
    timers,             \* pending setTimeout callbacks of the debounced updateSearch
    procs,              \* every external process the session has spawned
    gens,               \* every updateSearch call that reached the fan-out
    errorMessages,      \* <<generation, directory index>> of each showErrorMessage
    lastWrite,          \* which generation wrote searchItems last
    sinceChange,        \* ms since the last input change (capped at DebounceWait)
    burst,              \* the current burst of input changes and what it triggered
    \* ---- globalState 'file-browser.pinned' and FileBrowser.togglePin
    heap,               \* the PinnedItem[] array objects, by identity
    store,              \* the array globalState holds under the key, 0 = key not set
    cloneOnUpdate,      \* the host's Memento.update stores a copy of the value
    toggles,            \* togglePin calls suspended at `await path.isDir()`
    pair,               \* two toggles of one path in sequence: list before, progress
    duo,                \* two overlapping toggles of distinct paths: list before, progress
    \* ---- FileBrowser
    path,               \* this.path: the segments below the filesystem root
    file,               \* this.file: Option<string>, <<>> = None, <<name>> = Some
    items,              \* this.items
    currentItems,       \* this.current.items
    activeItems,        \* this.current.activeItems
    navValue,           \* this.current.value
    inActions,          \* this.inActions
    pathHistory,        \* this.pathHistory: path |-> Option<string>
    updates,            \* update() calls suspended at stat or readDirectory
    write,              \* this.opts.write
    autoCompletion,     \* this.autoCompletion, <<>> = undefined
    isAutoCompleteChange, \* this.isAutoCompleteChange
    lastNav,            \* the handler that changed path or inActions last
    itemsBy,            \* the handler whose update() assigned this.items last
    updateCount,        \* number of update() calls so far
    fsTree,             \* the file system: path |-> "Directory" or "File"
    keepAlive,          \* this.keepAlive
    visible,            \* the picker is shown
    hidePending,        \* an onDidHide event of the picker is on its way
    navDisposed,        \* dispose() has run
    flow,               \* the rename or delete of runAction that is suspended
    echoes,             \* change events of the program's own writes of the value
    ran,                \* the call an accepted item ended in, <<>> = none yet
    \* ---- SearchBrowser: the query of updateSearch and the output of a search
    qValue,             \* value, the argument of updateSearch
    qTokens,            \* value.split(/\s/)
    qIndex,             \* index of the reduce over the tokens
    qAcc,               \* acc of the reduce: the query when the tokens are used up
    execDir,            \* dir, the argument of fetchItemsSearchContent
    parts,              \* the fields the output line was written from
    stdout,             \* stdout of the search process
    stderr,             \* stderr of the search process is not empty
    settled,            \* how the promise of fetchItemsSearchContent has settled
    resolved,           \* the items it has resolved to
    accepted,           \* what the accept of a resolved item has done
    \* ---- The module: the file browsers that were opened
    activeBrowser,      \* active: 0 for None, or the number of a browser
    browsers            \* the pickers of the browsers, in the order of opening

searchVars == <<searchValue, searchItems, quickPickValue, dirs, originalFileDirectory,
                searchFileNameOnly,
                quickPickButtons, scrollBack, currentProcess, disposed, timers,
                procs, gens, errorMessages, lastWrite, sinceChange, burst>>

pinVars == <<heap, store, cloneOnUpdate, toggles, pair, duo>>

navVars == <<path, file, items, currentItems, activeItems, navValue, inActions,
             pathHistory, updates, write, autoCompletion, isAutoCompleteChange,
             lastNav, itemsBy, updateCount, fsTree, keepAlive, visible,
             hidePending, navDisposed, flow, echoes, ran>>

\* What the search session leaves alone.
parseVars == <<qValue, qTokens, qIndex, qAcc, execDir, parts, stdout, stderr, settled,
               resolved, accepted>>

moduleVars == <<activeBrowser, browsers>>

nonSearchVars == <<pinVars, navVars, parseVars, moduleVars>>

\* What a pin toggle leaves alone.
nonPinVars == <<searchVars, navVars, parseVars, moduleVars>>

\* What the file browser's navigation leaves alone.
nonNavVars == <<searchVars, pinVars, parseVars, moduleVars>>

\* What the parsing of a query and of an output line leaves alone.
nonParseVars == <<searchVars, pinVars, navVars, moduleVars>>

\* What the opening and the disposal of browsers leave alone.
nonModuleVars == <<searchVars, pinVars, navVars, parseVars>>

vars == <<searchVars, pinVars, navVars, parseVars, moduleVars>>

----------------------------------------------------------------------------
\* Bounds of the model.
MaxProcs == 2
MaxTimers == 2
TickMs == 50
MaxPending == 2
MaxPinned == 3
MaxUpdates == 3
MaxDepth == 2
MaxEchoes == 1
MaxScrollBack == 2
MaxInFlight == 2

\* Program constants.
DebounceWait == 100
ScrollBackLimit == 20

Values == {"", "a"}
HistoryValues == {"a"}
OriginalDirs == {"d0"}
WorkspaceFolders == <<"w1", "w2">>
PinPaths == {"/a/b", "/c"}
FileTypes == {"File", "Directory"}

Min(a, b) == IF a < b THEN a ELSE b

\* Number of result lines the search tool prints for a directory.
Lines(dir) == IF dir = "w1" THEN 2 ELSE 1

Take(s, n) == SubSeq(s, 1, n)

RECURSIVE Flat(_)
Flat(ss) == IF ss = <<>> THEN <<>> ELSE Head(ss) \o Flat(Tail(ss))

----------------------------------------------------------------------------
\* ---- SearchBrowser: external processes

\* The parsed output of one process that ran to completion.
Output(dir, query, nameOnly) ==
    [k \in 1..Lines(dir) |->
        [label |-> <<k, query>>,
         description |-> IF nameOnly THEN "" ELSE "text",
         detail |-> <<dir, k>>,
         num |-> IF nameOnly THEN 0 ELSE k]]

\* this.currentProcess?.kill('SIGTERM') on behalf of generation `by`
\* (0: dispose). A process that has already exited is not affected.
Kill(ps, cur, by) ==
    IF cur = 0 \/ ps[cur].settled THEN ps
    ELSE [ps EXCEPT ![cur].killed = TRUE, ![cur].killedBy = by]

\* The legacy module-level fetchItemsSearchContent terminates nothing.
KillCurrentLegacy(ps, cur, g) == ps

\* The head of fetchItemsSearchName / fetchItemsSearchContent.
KillCurrent(ps, cur, g) == Kill(ps, cur, g)

\* fetchItemsSearchName / fetchItemsSearchContent for one directory: terminate
\* the held process, then cp.exec a new one and hold it.
fetchItems(ps, cur, dir, i, g, afterDispose) ==
    Append(KillCurrent(ps, cur, g),
           [gen |-> g, idx |-> i, dir |-> dir, settled |-> FALSE, killed |-> FALSE,
            killedBy |-> 0, stderr |-> FALSE, out |-> 0,
            afterDispose |-> afterDispose])

\* this.dirs.map(dir => fetchItems...(quoteSearch, dir)): the calls run one
\* after the other, synchronously, each holding the process it spawned.
RECURSIVE SpawnAll(_, _, _, _, _, _)
SpawnAll(ps, cur, ds, i, g, afterDispose) ==
    IF i > Len(ds) THEN ps
    ELSE SpawnAll(fetchItems(ps, cur, ds[i], i, g, afterDispose),
                  Len(ps) + 1, ds, i + 1, g, afterDispose)

\* The promise of one directory: rejected at once for dir === "".
NewPromise(dir) ==
    IF dir = "" THEN [st |-> "rejected", val |-> <<>>]
    ELSE [st |-> "pending", val |-> <<>>]

\* The exec callback: reject on stderr, else resolve with the parsed lines;
\* a promise that is already settled keeps its state.
Callback(promise, err, lines) ==
    IF promise.st # "pending" THEN promise
    ELSE IF err THEN [st |-> "rejected", val |-> <<>>]
    ELSE [st |-> "fulfilled", val |-> lines]

AllSettled(res) == \A i \in 1..Len(res) : res[i].st # "pending"

\* All-or-nothing aggregation: one rejected directory drops every result.
RenderedAllOrNothing(res) ==
    IF \E i \in 1..Len(res) : res[i].st = "rejected" THEN <<>>
    ELSE Flat([i \in 1..Len(res) |-> res[i].val])

\* .filter(fulfilled).map(value).flat() over the settled promises.
Rendered(res) ==
    Flat([i \in 1..Len(res) |->
            IF res[i].st = "fulfilled" THEN res[i].val ELSE <<>>])

Rejected(res, g) == {<<g, i>> : i \in {j \in 1..Len(res) : res[j].st = "rejected"}}

----------------------------------------------------------------------------
\* ---- SearchBrowser: handlers

\* updateSearch(value), run with this.dirs = ds and this.searchFileNameOnly =
\* nameOnly. An empty value returns before anything is spawned. Otherwise one
\* process per directory is spawned and the call waits for all of them; with
\* no promise left pending the continuation writes the items at once.
updateSearch(value, ds, nameOnly) ==
    /\ quickPickValue' = value
    /\ IF value = ""
       THEN UNCHANGED <<procs, gens, currentProcess, searchItems, errorMessages, lastWrite>>
       ELSE /\ Len(procs) + Len(ds) <= MaxProcs
            /\ LET g == Len(gens) + 1
                   res == [i \in 1..Len(ds) |-> NewPromise(ds[i])]
                   done == AllSettled(res)
               IN /\ procs' = SpawnAll(procs, currentProcess, ds, 1, g, disposed)
                  /\ currentProcess' = IF ds = <<>> THEN currentProcess ELSE Len(procs')
                  /\ gens' = Append(gens, [dirs |-> ds, query |-> value,
                                           nameOnly |-> nameOnly, res |-> res,
                                           done |-> done,
                                           rendered |-> IF done THEN Rendered(res) ELSE <<>>])
                  /\ IF done
                     THEN /\ searchItems' = Rendered(res)
                          /\ errorMessages' = errorMessages \cup Rejected(res, g)
                          /\ lastWrite' = [gen |-> g, newest |-> g]
                     ELSE UNCHANGED <<searchItems, errorMessages, lastWrite>>

\* clearTimeout(timerId) without effect: every call leaves its timer pending.
ClearTimeoutNoop(ts) == [i \in DOMAIN ts |-> [ts[i] EXCEPT !.last = FALSE]]

\* clearTimeout(timerId): timerId names the timer the last call set.
ClearTimeout(ts) == SelectSeq(ts, LAMBDA t : ~t.last)

\* The debounced updateSearch: clear the timer of the previous call and set a
\* new one for this value.
debounce(v) ==
    /\ Len(ClearTimeout(timers)) < MaxTimers
    /\ timers' = Append(ClearTimeout(timers), [arg |-> v, age |-> 0, last |-> TRUE])
    /\ burst' = IF sinceChange >= DebounceWait
                THEN [len |-> 1, last |-> v, calls |-> <<>>, gens |-> <<>>]
                ELSE [burst EXCEPT !.len = Min(@ + 1, 2), !.last = v]
    /\ sinceChange' = 0

NoTimerDue == \A i \in 1..Len(timers) : timers[i].age < DebounceWait

\* The user edits the input: onDidChangeValue(updateSearchDebounced). A timer
\* that is due runs before a later input event.
OnDidChangeValue(v) ==
    /\ ~disposed
    /\ v # searchValue
    /\ NoTimerDue
    /\ searchValue' = v
    /\ debounce(v)
    /\ UNCHANGED <<searchItems, quickPickValue, dirs, originalFileDirectory,
                   searchFileNameOnly, quickPickButtons, scrollBack, currentProcess,
                   disposed, procs, gens, errorMessages, lastWrite>>
    /\ UNCHANGED nonSearchVars

\* Time passes, by TickMs, until a timer is due.
Tick ==
    /\ sinceChange < DebounceWait
    /\ NoTimerDue
    /\ sinceChange' = Min(sinceChange + TickMs, DebounceWait)
    /\ timers' = [i \in DOMAIN timers |->
                    [timers[i] EXCEPT !.age = Min(@ + TickMs, DebounceWait)]]
    /\ UNCHANGED <<searchValue, searchItems, quickPickValue, dirs, originalFileDirectory,
                   searchFileNameOnly, quickPickButtons, scrollBack, currentProcess,
                   disposed, procs, gens, errorMessages, lastWrite, burst>>
    /\ UNCHANGED nonSearchVars

\* The setTimeout callback of debounce: callback(...args).
TimerFire ==
    \E i \in 1..Len(timers) :
        /\ timers[i].age >= DebounceWait
        /\ timers' = [j \in 1..(Len(timers) - 1) |->
                        IF j < i THEN timers[j] ELSE timers[j + 1]]
        /\ updateSearch(timers[i].arg, dirs, searchFileNameOnly)
        /\ burst' = [burst EXCEPT !.calls = Append(@, timers[i].arg),
                                  !.gens = IF Len(gens') > Len(gens)
                                           THEN Append(@, Len(gens')) ELSE @]
        /\ UNCHANGED <<searchValue, dirs, originalFileDirectory, searchFileNameOnly,
                       quickPickButtons, scrollBack, disposed, sinceChange>>
        /\ UNCHANGED nonSearchVars

\* onDidTriggerButton(quickPickButtons[0]), from the button or from the
\* command file-browser.grep.toggleSearchWorkspace. The command goes through
\* the module's `active` reference, which dispose() leaves in place.
ToggleSearchWorkspace ==
    LET check == quickPickButtons[1] = "check"
        ds == IF check THEN <<originalFileDirectory>> ELSE WorkspaceFolders
    IN /\ dirs' = ds
       /\ quickPickButtons' =
            [quickPickButtons EXCEPT ![1] = IF check THEN "symbol-folder" ELSE "check"]
       /\ updateSearch(searchValue, ds, searchFileNameOnly)
       /\ UNCHANGED <<searchValue, originalFileDirectory, searchFileNameOnly, scrollBack,
                      disposed, timers, sinceChange, burst>>
       /\ UNCHANGED nonSearchVars

\* onDidTriggerButton(quickPickButtons[1]), from the button or from the
\* command file-browser.grep.toggleSearchContent.
ToggleSearchContent ==
    LET check == quickPickButtons[2] = "check"
    IN /\ searchFileNameOnly' = check
       /\ quickPickButtons' =
            [quickPickButtons EXCEPT ![2] = IF check THEN "symbol-keyword" ELSE "check"]
       /\ updateSearch(searchValue, dirs, check)
       /\ UNCHANGED <<searchValue, dirs, originalFileDirectory, scrollBack,
                      disposed, timers, sinceChange, burst>>
       /\ UNCHANGED nonSearchVars

\* An external process ends and the exec callback runs: with stderr (err) or
\* with n lines of output. A process that was not terminated prints all its
\* lines; one that was sent SIGTERM may have printed any prefix of them. The
\* callback that settles the last promise of its generation resumes
\* updateSearch, which writes the items and reports the rejected directories.
ProcSettle ==
    \E p \in 1..Len(procs), err \in BOOLEAN, n \in 0..2 :
        LET pr == procs[p]
            g == pr.gen
            gen == gens[g]
            lines == Take(Output(pr.dir, gen.query, gen.nameOnly), n)
            res == [gen.res EXCEPT ![pr.idx] = Callback(@, err, lines)]
            done == AllSettled(res) /\ ~gen.done
        IN /\ ~pr.settled
           /\ n <= Lines(pr.dir)
           /\ err => n = 0
           /\ (~err /\ ~pr.killed) => n = Lines(pr.dir)
           /\ procs' = [procs EXCEPT ![p].settled = TRUE, ![p].stderr = err, ![p].out = n]
           /\ gens' = [gens EXCEPT ![g].res = res,
                                   ![g].done = @ \/ done,
                                   ![g].rendered = IF done THEN Rendered(res) ELSE @]
           /\ IF done
              THEN /\ searchItems' = Rendered(res)
                   /\ errorMessages' = errorMessages \cup Rejected(res, g)
                   /\ lastWrite' = [gen |-> g, newest |-> Len(gens)]
              ELSE UNCHANGED <<searchItems, errorMessages, lastWrite>>
           /\ UNCHANGED <<searchValue, quickPickValue, dirs, originalFileDirectory,
                          searchFileNameOnly, quickPickButtons, scrollBack,
                          currentProcess, disposed, timers, sinceChange, burst>>
           /\ UNCHANGED nonSearchVars

\* The picker is hidden: onDidHide runs dispose(), which terminates the held
\* process. The debounce timer is not cleared.
OnDidHide ==
    /\ ~disposed
    /\ disposed' = TRUE
    /\ procs' = Kill(procs, currentProcess, 0)
    /\ currentProcess' = 0
    /\ UNCHANGED <<searchValue, searchItems, quickPickValue, dirs, originalFileDirectory,
                   searchFileNameOnly, quickPickButtons, scrollBack, timers, gens,
                   errorMessages, lastWrite, sinceChange, burst>>
    /\ UNCHANGED nonSearchVars

\* The scrollback update of onDidAccept: drop the oldest entry when the
\* length exceeds the limit, then put the query at the front.
PushScrollBack(sb, label) ==
    <<label>> \o (IF Len(sb) > ScrollBackLimit THEN Take(sb, Len(sb) - 1) ELSE sb)

\* onDidAccept with the i-th item selected. A history item replays its label
\* into the input (a change of the value, which the debounced handler sees);
\* any other item records the query in the scrollback and is then opened.
OnDidAccept ==
    \E i \in 1..Len(searchItems) :
        LET item == searchItems[i]
        IN /\ ~disposed
           /\ IF item.description = "History"
              THEN /\ searchValue' = item.label
                   /\ IF item.label # searchValue
                      THEN debounce(item.label)
                      ELSE UNCHANGED <<timers, sinceChange, burst>>
                   /\ UNCHANGED scrollBack
              ELSE /\ scrollBack' = PushScrollBack(scrollBack, quickPickValue)
                   /\ UNCHANGED <<searchValue, timers, sinceChange, burst>>
           /\ UNCHANGED <<searchItems, quickPickValue, dirs, originalFileDirectory,
                          searchFileNameOnly, quickPickButtons, currentProcess,
                          disposed, procs, gens, errorMessages, lastWrite>>
           /\ UNCHANGED nonSearchVars

\* new SearchBrowser(dirs, opts): the directory of the active document ("" with
\* no active editor), either mode, an empty picker.
InitSearch ==
    /\ originalFileDirectory \in OriginalDirs
    /\ dirs = <<originalFileDirectory>>
    /\ searchFileNameOnly \in BOOLEAN
    /\ searchValue = ""
    /\ searchItems = <<>>
    /\ quickPickValue = ""
    /\ quickPickButtons = <<"symbol-folder", "symbol-keyword">>
    /\ scrollBack = <<>>
    /\ currentProcess = 0
    /\ disposed = FALSE
    /\ timers = <<>>
    /\ procs = <<>>
    /\ gens = <<>>
    /\ errorMessages = {}
    /\ lastWrite = [gen |-> 0, newest |-> 0]
    /\ sinceChange = DebounceWait
    /\ burst = [len |-> 0, last |-> "", calls |-> <<>>, gens |-> <<>>]

\* ---- The pinned list is not touched by the search session.
InitPinIdle ==
    /\ heap = <<>>
    /\ store = 0
    /\ cloneOnUpdate = FALSE
    /\ toggles = <<>>
    /\ pair = [path |-> "", before |-> <<>>, n |-> 0, running |-> FALSE, valid |-> FALSE]
    /\ duo = [first |-> "", second |-> "", before |-> <<>>, done |-> 0, valid |-> FALSE]

\* No command of the module has opened a browser.
InitModuleIdle ==
    /\ activeBrowser = 0
    /\ browsers = <<>>

\* No file browser is open.
InitNavIdle ==
    /\ path = <<>>
    /\ file = <<>>
    /\ items = <<>>
    /\ currentItems = <<>>
    /\ activeItems = <<>>
    /\ navValue = <<>>
    /\ inActions = FALSE
    /\ pathHistory = <<>>
    /\ updates = <<>>
    /\ write = FALSE
    /\ autoCompletion = <<>>
    /\ isAutoCompleteChange = FALSE
    /\ lastNav = ""
    /\ itemsBy = ""
    /\ updateCount = 0
    /\ fsTree = <<>>
    /\ keepAlive = FALSE
    /\ visible = FALSE
    /\ hidePending = FALSE
    /\ navDisposed = FALSE
    /\ flow = <<>>
    /\ echoes = <<>>
    /\ ran = <<>>

\* No query is being split and no search output is being read.
InitParseIdle ==
    /\ qValue = <<>>
    /\ qTokens = <<>>
    /\ qIndex = 0
    /\ qAcc = <<>>
    /\ execDir = <<>>
    /\ parts = <<>>
    /\ stdout = <<>>
    /\ stderr = FALSE
    /\ settled = ""
    /\ resolved = <<>>
    /\ accepted = <<>>

Init == InitSearch /\ InitModuleIdle /\ InitPinIdle /\ InitNavIdle /\ InitParseIdle

Next ==
    \/ \E v \in Values : OnDidChangeValue(v)
    \/ Tick
    \/ TimerFire
    \/ ToggleSearchWorkspace
    \/ ToggleSearchContent
    \/ ProcSettle
    \/ OnDidHide

Spec == Init /\ [][Next]_vars

\* The session with the accept handler and one query text, so that the
\* scrollback can fill up.
NextHistory ==
    \/ \E v \in HistoryValues : OnDidChangeValue(v)
    \/ Tick
    \/ TimerFire
    \/ ToggleSearchContent
    \/ ProcSettle
    \/ OnDidAccept

SpecHistory == Init /\ [][NextHistory]_vars

\* onDidAccept while the scrollback is short.
OnDidAcceptSome == Len(scrollBack) < MaxScrollBack /\ OnDidAccept

\* The session in which the user edits the query and accepts results.
NextAccept ==
    \/ \E v \in Values : OnDidChangeValue(v)
    \/ Tick
    \/ TimerFire
    \/ ProcSettle
    \/ OnDidAcceptSome

SpecAccept == Init /\ [][NextAccept]_vars

----------------------------------------------------------------------------
\* ---- Properties of the search session

ProcIds == 1..Len(procs)
GenIds == 1..Len(gens)

\* A process that has neither exited nor been sent SIGTERM.
Live(p) == ~procs[p].settled /\ ~procs[p].killed

\* The process of directory i of generation g.
ProcOf(g, i) == CHOOSE p \in ProcIds : procs[p].gen = g /\ procs[p].idx = i

\* C1: after any sequence of accepts the scrollback holds at most 20 entries.
C1_ScrollBackAtMost20 == Len(scrollBack) <= 20

\* C2: once a newer generation has started, no older generation writes the
\* item list, and when every process has settled the list shows the results of
\* the newest generation.
C2_OnlyNewestGenerationWritten ==
    /\ lastWrite.gen = lastWrite.newest
    /\ (gens # <<>> /\ \A p \in ProcIds : procs[p].settled)
          => searchItems = Rendered(gens[Len(gens)].res)

\* C3: no process is terminated by a sibling of its own generation, and a
\* generation whose processes all end without stderr renders the concatenation,
\* in directory order, of every directory's full results.
C3_AllDirectoriesRunToCompletion ==
    \A g \in GenIds :
        /\ \A p \in ProcIds : procs[p].gen = g => procs[p].killedBy # g
        /\ (gens[g].done /\ \A p \in ProcIds : procs[p].gen = g => ~procs[p].stderr)
              => gens[g].rendered =
                    Flat([i \in 1..Len(gens[g].dirs) |->
                            Output(gens[g].dirs[i], gens[g].query, gens[g].nameOnly)])

BurstEnded == burst.len > 0 /\ sinceChange >= DebounceWait /\ timers = <<>>

\* C4 as stated: a burst of input changes, each less than 100 ms after the
\* previous one, triggers exactly one search generation, run with the last
\* value of the burst.
C4_BurstStartsOneGeneration ==
    BurstEnded => /\ Len(burst.gens) = 1
                  /\ gens[burst.gens[1]].query = burst.last

\* C4 amended: while the burst lasts the debounced updateSearch is not called;
\* when it has ended updateSearch has been called exactly once, with the last
\* value of the burst, and has started one generation for a non-empty value
\* and none for the empty value.
C4_BurstCallsUpdateSearchOnce ==
    /\ (burst.len > 0 /\ sinceChange < DebounceWait) => burst.calls = <<>>
    /\ Len(burst.calls) <= 1
    /\ BurstEnded =>
          /\ burst.calls = <<burst.last>>
          /\ IF burst.last = "" THEN burst.gens = <<>>
             ELSE /\ Len(burst.gens) = 1
                  /\ gens[burst.gens[1]].query = burst.last

C4_Witness ==
    /\ BurstEnded
    /\ burst.len = 2
    /\ burst.last # ""
    /\ Len(burst.gens) = 1

\* C5: every spawn is preceded by the termination of the held process: the
\* only process that may be running unsignalled is the held one, and once a
\* newer generation has spawned no process of an older generation is.
C5_SpawnTerminatesHeldProcess ==
    /\ \A p \in ProcIds : Live(p) => currentProcess = p
    /\ \A p, q \in ProcIds : procs[p].gen < procs[q].gen => ~Live(p)
    /\ \A g \in GenIds :
          (\E i \in 1..Len(gens[g].res) : gens[g].res[i].st # "pending")
             => \A p \in ProcIds : procs[p].gen < g => ~Live(p)

C5_Witness ==
    \E p, q \in ProcIds :
        /\ procs[p].gen < procs[q].gen
        /\ procs[p].killed
        /\ procs[p].killedBy = procs[q].gen
        /\ procs[q].settled

\* C6: once the picker is hidden the session has no running process and
\* spawns none.
C6_NoProcessAfterHide ==
    disposed => \A p \in ProcIds : ~Live(p) /\ ~procs[p].afterDispose

\* What directory i of generation g contributes: nothing when its process
\* printed to stderr, else the lines its process printed.
Contribution(g, i) ==
    LET pr == procs[ProcOf(g, i)]
    IN IF pr.stderr THEN <<>>
       ELSE Take(Output(gens[g].dirs[i], gens[g].query, gens[g].nameOnly), pr.out)

\* C7: in a completed generation every directory whose process printed to
\* stderr is reported and contributes no items, every directory whose process
\* succeeded contributes all its results, and the items written are the
\* contributions in directory order.
C7_FailingDirectoryIsIsolated ==
    \A g \in GenIds :
        gens[g].done =>
            LET n == Len(gens[g].dirs)
                expected == Flat([i \in 1..n |-> Contribution(g, i)])
            IN /\ \A i \in 1..n :
                    LET pr == procs[ProcOf(g, i)]
                    IN /\ pr.settled
                       /\ pr.stderr <=> <<g, i>> \in errorMessages
                       /\ (~pr.stderr /\ ~pr.killed) => pr.out = Lines(pr.dir)
               /\ gens[g].rendered = expected
               /\ lastWrite.gen = g => searchItems = expected

C7_Witness ==
    \E g \in GenIds :
        /\ gens[g].done
        /\ lastWrite.gen = g
        /\ \E i, j \in 1..Len(gens[g].dirs) :
              /\ procs[ProcOf(g, i)].stderr
              /\ ~procs[ProcOf(g, j)].stderr
              /\ ~procs[ProcOf(g, j)].killed
              /\ searchItems = Output(gens[g].dirs[j], gens[g].query, gens[g].nameOnly)

----------------------------------------------------------------------------
\* ---- The pinned list: globalState and FileBrowser.togglePin

PinnedItems == [fsPath : PinPaths, type : FileTypes]

\* The pinned list as globalState.get('file-browser.pinned', []) reads it.
StoreList == IF store = 0 THEN <<>> ELSE heap[store]

\* pinned.findIndex by object identity: no stored entry is ever found.
findIndexNever(list, fsPath) == 0

\* pinned.findIndex(p => p.fsPath === path.uri.fsPath); 0 stands for -1.
findIndex(list, fsPath) ==
    IF \E i \in 1..Len(list) : list[i].fsPath = fsPath
    THEN CHOOSE i \in 1..Len(list) :
            /\ list[i].fsPath = fsPath
            /\ \A j \in 1..(i - 1) : list[j].fsPath # fsPath
    ELSE 0

\* pinned.splice(found, 1)
splice(list, found) ==
    [k \in 1..(Len(list) - 1) |-> IF k < found THEN list[k] ELSE list[k + 1]]

\* globalState.get(key, []): the array object the store holds, or the fresh
\* default array when the key is not set.
Get(h, st) ==
    IF st = 0 THEN [heap |-> Append(h, <<>>), ref |-> Len(h) + 1]
    ELSE [heap |-> h, ref |-> st]

\* globalState.update(key, pinned): the store holds the array it was given,
\* or, on hosts that copy the value, a new array with the same entries.
Update(h, ref) ==
    IF cloneOnUpdate THEN [heap |-> Append(h, h[ref]), store |-> Len(h) + 1]
    ELSE [heap |-> h, store |-> ref]

\* Array objects that neither the store nor a suspended call refers to are
\* garbage; the rest keep their order.
Compact(h, st, ts) ==
    LET used == ({st} \cup {ts[i].ref : i \in 1..Len(ts)}) \ {0}
        rank(i) == Cardinality({j \in used : j <= i})
    IN [heap |-> [k \in 1..Cardinality(used) |-> h[CHOOSE i \in used : rank(i) = k]],
        store |-> IF st = 0 THEN 0 ELSE rank(st),
        toggles |-> [i \in 1..Len(ts) |-> [ts[i] EXCEPT !.ref = rank(@)]]]

\* path.isDir(): /, /a and /a/b are directories, /c is a file.
isDir(fsPath) == fsPath \in {"/", "/a", "/a/b"}

NoPair == [path |-> "", before |-> <<>>, n |-> 0, running |-> FALSE, valid |-> FALSE]

NoDuo == [first |-> "", second |-> "", before |-> <<>>, done |-> 0, valid |-> FALSE]

\* togglePin(path) up to its first suspension: read the list, look the path
\* up; when it is found remove it and persist, else wait for path.isDir().
\* `by` names the handler that called.
TogglePinCore(fsPath, by) ==
    LET got == Get(heap, store)
        found == findIndex(got.heap[got.ref], fsPath)
        sync == found # 0
    IN /\ IF sync
          THEN LET upd == Update([got.heap EXCEPT ![got.ref] = splice(@, found)], got.ref)
                   c == Compact(upd.heap, upd.store, toggles)
               IN /\ heap' = c.heap
                  /\ store' = c.store
                  /\ toggles' = c.toggles
          ELSE /\ Len(toggles) < MaxPending
               /\ heap' = got.heap
               /\ toggles' = Append(toggles, [path |-> fsPath, ref |-> got.ref,
                                               by |-> by])
               /\ UNCHANGED store
       /\ UNCHANGED cloneOnUpdate

\* What the properties of two toggles remember of a call of togglePin(path)
TogglePinNoted(fsPath) ==
    LET got == Get(heap, store)
        found == findIndex(got.heap[got.ref], fsPath)
        sync == found # 0
        continues == toggles = <<>> /\ pair.valid /\ pair.n = 1 /\ pair.path = fsPath
    IN /\ pair' = IF toggles # <<>> THEN NoPair
                  ELSE IF continues
                  THEN [pair EXCEPT !.n = IF sync THEN 2 ELSE 1, !.running = ~sync]
                  ELSE [path |-> fsPath, before |-> StoreList,
                        n |-> IF sync THEN 1 ELSE 0, running |-> ~sync, valid |-> TRUE]
       /\ duo' = IF toggles = <<>>
                 THEN IF sync THEN NoDuo
                      ELSE [first |-> fsPath, second |-> "", before |-> StoreList,
                            done |-> 0, valid |-> TRUE]
                 ELSE IF duo.valid /\ duo.second = "" /\ fsPath # duo.first
                 THEN [duo EXCEPT !.second = fsPath, !.done = IF sync THEN 1 ELSE 0]
                 ELSE NoDuo

\* A call of togglePin(path) while nothing else happens
TogglePinStart(fsPath) ==
    TogglePinCore(fsPath, "") /\ TogglePinNoted(fsPath) /\ UNCHANGED nonPinVars

\* togglePin resumes after `await path.isDir()`: push the entry onto the array
\* it read before waiting, and persist that array.
TogglePinResumeAt(i) ==
    LET t == toggles[i]
        entry == [fsPath |-> t.path,
                  type |-> IF isDir(t.path) THEN "Directory" ELSE "File"]
        upd == Update([heap EXCEPT ![t.ref] = Append(@, entry)], t.ref)
        rest == [k \in 1..(Len(toggles) - 1) |->
                    IF k < i THEN toggles[k] ELSE toggles[k + 1]]
        c == Compact(upd.heap, upd.store, rest)
    IN /\ Len(heap[t.ref]) < MaxPinned
       /\ heap' = c.heap
       /\ store' = c.store
       /\ toggles' = c.toggles
       /\ pair' = IF pair.valid /\ pair.running
                  THEN [pair EXCEPT !.n = @ + 1, !.running = FALSE]
                  ELSE pair
       /\ duo' = IF duo.valid /\ duo.second # ""
                 THEN [duo EXCEPT !.done = @ + 1]
                 ELSE NoDuo
       /\ UNCHANGED cloneOnUpdate
       /\ UNCHANGED nonPinVars

TogglePinResume == \E i \in 1..Len(toggles) : TogglePinResumeAt(i)

\* The persisted list a session finds: the key not set, or a list with at most
\* one entry per path.
InitLists ==
    {<<>>} \cup {<<e>> : e \in PinnedItems}
           \cup {<<e1, e2>> : <<e1, e2>> \in
                    {x \in PinnedItems \X PinnedItems : x[1].fsPath # x[2].fsPath}}

InitPin ==
    /\ cloneOnUpdate \in BOOLEAN
    /\ \/ heap = <<>> /\ store = 0
       \/ \E l \in InitLists : heap = <<l>> /\ store = 1
    /\ toggles = <<>>
    /\ pair = NoPair
    /\ duo = NoDuo

NextPin ==
    \/ \E fsPath \in PinPaths : TogglePinStart(fsPath)
    \/ TogglePinResume

\* A session that only toggles pins.
InitPinned == InitSearch /\ InitModuleIdle /\ InitPin /\ InitNavIdle /\ InitParseIdle

SpecPin == InitPinned /\ [][NextPin]_vars

\* Number of entries of a list for a path.
Count(list, fsPath) == Cardinality({i \in 1..Len(list) : list[i].fsPath = fsPath})

\* C9: the pinned list holds at most one entry per absolute path, also when
\* two toggles of one path overlap.
C9_AtMostOneEntryPerPath ==
    \A fsPath \in PinPaths : Count(StoreList, fsPath) <= 1

\* list without its first entry for fsPath
DropFirst(list, fsPath) ==
    LET at == {i \in 1..Len(list) : list[i].fsPath = fsPath}
        first == CHOOSE i \in at : \A j \in at : i <= j
    IN [k \in 1..(Len(list) - 1) |-> IF k < first THEN list[k] ELSE list[k + 1]]

PairDone == pair.valid /\ pair.n = 2 /\ ~pair.running

\* C10 as stated: two toggles of one path in sequence return the pinned list
\* to its original state, wherever the path was.
C10_ToggleTwiceRestoresList == PairDone => StoreList = pair.before

\* C10 amended: two toggles of one path in sequence restore the list when the
\* path was absent; a path that had one entry loses it and gets a new entry
\* at the end of the list, typed as the file system has it now, the other
\* entries keeping their order; a path that had several entries loses its
\* first two.
C10_ToggleTwiceMovesToEnd ==
    PairDone =>
        LET l == pair.before
            c == Count(l, pair.path)
            l1 == DropFirst(l, pair.path)
        IN /\ c = 0 => StoreList = l
           /\ c = 1 => StoreList =
                         Append(l1, [fsPath |-> pair.path,
                                     type |-> IF isDir(pair.path) THEN "Directory"
                                              ELSE "File"])
           /\ c > 1 => StoreList = DropFirst(l1, pair.path)

\* Two toggles in sequence of a path that was first of two entries.
C10_Witness ==
    /\ PairDone
    /\ Len(pair.before) = 2
    /\ pair.before[1].fsPath = pair.path
    /\ StoreList # pair.before

Present(list, fsPath) == Count(list, fsPath) > 0

DuoDone == duo.valid /\ duo.second # "" /\ duo.done = 2

\* C11: when two toggles of distinct paths overlap, the list that results
\* reflects both: each of the two paths is pinned afterwards exactly if it was
\* not pinned before, and every other path is as it was.
C11_OverlappingTogglesBothReflected ==
    DuoDone =>
        \A fsPath \in PinPaths :
            Present(StoreList, fsPath) =
                IF fsPath \in {duo.first, duo.second}
                THEN ~Present(duo.before, fsPath)
                ELSE Present(duo.before, fsPath)

----------------------------------------------------------------------------
\* ---- The file browser: FileBrowser.update and the handlers that start it.
\* Names and input values are sequences of characters; a path is the
\* sequence of its segments below the filesystem root.

None == <<>>
Some(x) == <<x>>

S == <<"s">>
T == <<"t">>
F == <<"f">>
G == <<"g">>

\* What the user types into the picker: "", "s/", "t/", "../", "n", "t/n".
NavValues ==
    { <<>>, <<"s", "/">>, <<"t", "/">>, <<".", ".", "/">>, <<"n">>,
      <<"t", "/", "n">> }

\* Base name of the active editor's document, <<>> = no active editor.
EditorFiles == { <<>>, <<"c">> }

\* The file system a session finds: /s, /s/t are directories, /f and /s/g
\* are files.
InitTree ==
    [p \in {<<>>, <<S>>, <<S, T>>, <<F>>, <<S, G>>} |->
        IF p \in {<<F>>, <<S, G>>} THEN "File" ELSE "Directory"]

\* vscode.workspace.fs.stat(uri), "None" when it rejects.
Stat(p) == IF p \in DOMAIN fsTree THEN fsTree[p] ELSE "None"

\* The characters of names, in their order.
Alphabet == <<".", "/", "a", "b", "c", "f", "g", "n", "r", "s", "t">>

\* String.prototype.toLowerCase on one character and on a name
LowerChar(c) == CASE c = "F" -> "f" [] c = "G" -> "g" [] OTHER -> c

toLowerCase(name) == [i \in 1..Len(name) |-> LowerChar(name[i])]

CharIndex(c) == CHOOSE i \in 1..Len(Alphabet) : Alphabet[i] = LowerChar(c)

RECURSIVE NameLess(_, _)
\* a < b for names (module ./fileitem, fileRecordCompare)
NameLess(a, b) ==
    IF b = <<>> THEN FALSE
    ELSE IF a = <<>> THEN TRUE
    ELSE IF a[1] = b[1] THEN NameLess(Tail(a), Tail(b))
    ELSE CharIndex(a[1]) < CharIndex(b[1])

\* The entries of directory p
Children(p) ==
    {q \in DOMAIN fsTree : Len(q) = Len(p) + 1 /\ SubSeq(q, 1, Len(p)) = p}

RECURSIVE Sorted(_)
\* A set of paths as a sequence, by the name of the last segment.
Sorted(qs) ==
    IF qs = {} THEN <<>>
    ELSE LET q == CHOOSE x \in qs :
                    \A y \in qs \ {x} : NameLess(x[Len(x)], y[Len(y)])
         IN <<q>> \o Sorted(qs \ {q})

\* vscode.workspace.fs.readDirectory(uri), sorted by fileRecordCompare, as
\* FileItems.
ReadDirectory(p) ==
    LET qs == Sorted(Children(p))
    IN [i \in 1..Len(qs) |->
            [name |-> qs[i][Len(qs[i])], fileType |-> fsTree[qs[i]], action |-> ""]]

\* The members of the enumeration Action.
Action ==
    { "NewFile", "NewFolder", "OpenFile", "OpenFileBeside", "RenameFile", "DeleteFile",
      "OpenFolder", "OpenFolderInNewWindow", "Pin", "OpenPin", "FindFiles",
      "FindFilesContent" }

\* Action.a: the member of that name; what is no member reads as undefined,
\* written "" as the action of an entry of a directory is.
Tag(a) == IF a \in Action THEN a ELSE ""

\* action(label, Action.a): an item with an empty name
ActionItem(a) == [name |-> <<>>, fileType |-> "", action |-> Tag(a)]

\* getPinned(): one OpenPin item per stored entry
getPinned ==
    [i \in 1..Len(StoreList) |->
        [name |-> <<StoreList[i].fsPath>>, fileType |-> "", action |-> "OpenPin",
         arg |-> StoreList[i]]]

FileActions ==
    << ActionItem("OpenFile"), ActionItem("OpenFileBeside"), ActionItem("RenameFile"),
       ActionItem("DeleteFile"), ActionItem("FindFiles"), ActionItem("FindFilesContent"),
       ActionItem("Pin"), ActionItem("CopyPath") >> \o getPinned

FolderActions ==
    << ActionItem("OpenFolder"), ActionItem("OpenFolderInNewWindow"),
       ActionItem("RenameFile"), ActionItem("DeleteFile"), ActionItem("FindFiles"),
       ActionItem("FindFilesContent"), ActionItem("Pin"), ActionItem("CopyPath") >>
    \o getPinned

\* ---- Strings
\* value.replace(/\\/g, '/')
Replace(value) ==
    [i \in 1..Len(value) |-> IF value[i] = "\\" THEN "/" ELSE value[i]]

\* value.endsWith(suffix)
EndsWith(value, suffix) ==
    /\ Len(value) >= Len(suffix)
    /\ SubSeq(value, Len(value) - Len(suffix) + 1, Len(value)) = suffix

\* value.startsWith(prefix)
StartsWith(value, prefix) ==
    /\ Len(value) >= Len(prefix)
    /\ SubSeq(value, 1, Len(prefix)) = prefix

\* value.lastIndexOf('/', from): 0-based, -1 when there is none
LastIndexOf(value, from) ==
    LET at == {i \in 0..Min(from, Len(value) - 1) : value[i + 1] = "/"}
    IN IF at = {} THEN -1 ELSE CHOOSE i \in at : \A j \in at : j <= i

\* value.slice(a, b), 0-based, b exclusive
Slice(value, a, b) == SubSeq(value, a + 1, b)

\* ---- Path (module ./path)
RECURSIVE Segments(_)
\* The segments of a relative path text, split at the separators.
Segments(text) ==
    IF text = <<>> THEN <<>>
    ELSE LET seps == {i \in 1..Len(text) : text[i] = "/"}
         IN IF seps = {} THEN <<text>>
            ELSE LET i == CHOOSE k \in seps : \A j \in seps : k <= j
                     head == SubSeq(text, 1, i - 1)
                     tail == Segments(SubSeq(text, i + 1, Len(text)))
                 IN IF head = <<>> THEN tail ELSE <<head>> \o tail

HomePath == <<S>>
WorkspacePath == <<>>

\* path.append(relative)
PathAppend(p, text) == p \o Segments(text)

\* Path.fromFilePath(text)
fromFilePath(text) ==
    IF StartsWith(text, <<"~">>) THEN HomePath \o Segments(Tail(text))
    ELSE IF StartsWith(text, <<"@">>) THEN WorkspacePath \o Segments(Tail(text))
    ELSE Segments(text)

\* endsWithPathSeparator(value): Some(value without the separator) or None
endsWithPathSeparator(value) ==
    IF EndsWith(value, <<"/">>) THEN Some(SubSeq(value, 1, Len(value) - 1)) ELSE None

\* path.atTop()
atTop(p) == p = <<>>

\* The absolute paths of the sessions with pins: the paths of at most two
\* segments over the names a, b and c.
FsPaths ==
    { "/", "/a", "/b", "/c", "/a/a", "/a/b", "/a/c",
      "/b/a", "/b/b", "/b/c", "/c/a", "/c/b", "/c/c" }

\* A path text as the sequence of its characters
Chars(text) ==
    CASE text = "/" -> <<"/">>
      [] text = "/a" -> <<"/", "a">>
      [] text = "/b" -> <<"/", "b">>
      [] text = "/c" -> <<"/", "c">>
      [] text = "/a/a" -> <<"/", "a", "/", "a">>
      [] text = "/a/b" -> <<"/", "a", "/", "b">>
      [] text = "/a/c" -> <<"/", "a", "/", "c">>
      [] text = "/b/a" -> <<"/", "b", "/", "a">>
      [] text = "/b/b" -> <<"/", "b", "/", "b">>
      [] text = "/b/c" -> <<"/", "b", "/", "c">>
      [] text = "/c/a" -> <<"/", "c", "/", "a">>
      [] text = "/c/b" -> <<"/", "c", "/", "b">>
      [] text = "/c/c" -> <<"/", "c", "/", "c">>

\* The path has its text among those of the model.
HasFsPath(p) == \E text \in FsPaths : fromFilePath(Chars(text)) = p

\* path.uri.fsPath: the text that Path.fromFilePath reads as this path
fsPath(p) == CHOOSE text \in FsPaths : fromFilePath(Chars(text)) = p

\* ---- The handlers, as functions of the browser's state
NavState ==
    [path |-> path, file |-> file, items |-> items, currentItems |-> currentItems,
     activeItems |-> activeItems, value |-> navValue, inActions |-> inActions,
     pathHistory |-> pathHistory, updates |-> updates,
     autoCompletion |-> autoCompletion, isAutoCompleteChange |-> isAutoCompleteChange,
     lastNav |-> lastNav, itemsBy |-> itemsBy, updateCount |-> updateCount,
     visible |-> visible, echoes |-> echoes]

\* this.current.value = v: the picker fires onDidChangeValue(v) when this
\* changes its value.
SetValue(st, v, by) ==
    [st EXCEPT !.value = v,
               !.echoes = IF v # st.value THEN Append(@, [value |-> v, by |-> by])
                          ELSE @]

\* update() up to `await stat(this.path.uri)`: the value is cleared and the
\* stat of the path of this moment is requested. `by` names the handler that
\* called, `andThen` what its caller does when update() has returned, `n`
\* counts the calls of update().
update(st, by, andThen, rest) ==
    [SetValue(st, <<>>, "update") EXCEPT
               !.visible = TRUE,
               !.updateCount = @ + 1,
               !.updates = Append(@, [stage |-> "stat", p |-> st.path, by |-> by,
                                      andThen |-> andThen, rest |-> rest,
                                      n |-> st.updateCount + 1])]

\* this.pathHistory[this.path.id] || None
HistoryAt(h, p) == IF p \in DOMAIN h THEN h[p] ELSE None

\* this.pathHistory[this.path.id] = name
HistoryPut(h, p, name) ==
    [x \in DOMAIN h \cup {p} |-> IF x = p THEN name ELSE h[x]]

\* activeItem()
activeItem(st) == IF st.activeItems = <<>> THEN None ELSE Some(st.activeItems[1])

\* A stepIntoFolder that refreshes without moving to the folder
stepIntoFolderInPlace(st, folder, andThen, rest) ==
    update([st EXCEPT !.lastNav = "onDidChangeValue"], "onDidChangeValue", andThen, rest)

\* A stepIntoFolder that forgets what the path history holds for the folder
stepIntoFolderUnselected(st, folder, andThen, rest) ==
    update([st EXCEPT !.path = folder,
                      !.file = None,
                      !.lastNav = "onDidChangeValue"],
           "onDidChangeValue", andThen, rest)

\* stepIntoFolder(folder), and the `.then` its caller chained
stepIntoFolder(st, folder, andThen, rest) ==
    update([st EXCEPT !.path = folder,
                      !.file = HistoryAt(st.pathHistory, folder),
                      !.lastNav = "onDidChangeValue"],
           "onDidChangeValue", andThen, rest)

\* stepOut()
stepOut(st) ==
    LET st1 == [st EXCEPT !.inActions = FALSE, !.lastNav = "stepOut"]
        active == activeItem(st1)
    IN IF atTop(st1.path) THEN st1
       ELSE update([st1 EXCEPT
                        !.pathHistory = HistoryPut(@, st1.path,
                                            IF active = None THEN None
                                            ELSE Some(active[1].name)),
                        !.file = Some(st1.path[Len(st1.path)]),
                        !.path = SubSeq(st1.path, 1, Len(st1.path) - 1)],
                   "stepOut", "", <<>>)

\* actions()
actions(st) ==
    IF st.inActions THEN st
    ELSE LET active == activeItem(st)
         IN IF active # None
            THEN update([st EXCEPT !.inActions = TRUE,
                                   !.path = Append(@, active[1].name),
                                   !.file = None,
                                   !.lastNav = "actions"],
                        "actions", "", <<>>)
            ELSE update([st EXCEPT !.inActions = TRUE, !.file = None,
                                   !.lastNav = "actions"],
                        "actions", "", <<>>)

\* A find that takes the first item for every value
FindAny(list, value) == IF list = <<>> THEN 0 ELSE 1

\* items.find(item => item.name === value): its index, 0 = undefined
\* A find that finds nothing
FindNone(list, value) == 0

Find(list, value) ==
    IF \E i \in 1..Len(list) : list[i].name = value
    THEN CHOOSE i \in 1..Len(list) :
            /\ list[i].name = value
            /\ \A j \in 1..(i - 1) : list[j].name # value
    ELSE 0

\* A reset of the shown items that leaves the selection
ShowItemsKeepActive(st) == [st EXCEPT !.currentItems = st.items]

\* this.current.items = this.items; this.current.activeItems = []
ShowItems(st) == [st EXCEPT !.currentItems = st.items, !.activeItems = <<>>]

\* onDidChangeValue(value); cur is the active editor's file name.
onDidChangeValue(st0, origValue, cur) ==
    IF st0.inActions THEN st0
    ELSE
    LET st == IF ~st0.isAutoCompleteChange
              THEN [st0 EXCEPT !.autoCompletion = <<>>]
              ELSE [st0 EXCEPT !.isAutoCompleteChange = FALSE]
        existingItem == Find(st.items, origValue)
        value == Replace(origValue)
        searchIndex ==
            IF Len(value) > 1 /\ EndsWith(value, <<"/">>) /\ ~EndsWith(value, <<":", "/">>)
            THEN Len(value) - 2 ELSE Len(value) - 1
        lastPathSeparator == LastIndexOf(value, searchIndex)
        rooted ==
            \/ StartsWith(value, <<"/">>)
            \/ Len(value) > 1 /\ StartsWith(Tail(value), <<":">>)
            \/ StartsWith(value, <<"~">>)
            \/ StartsWith(value, <<"@">>)
            \/ StartsWith(value, <<"$", "e", "n", "v", ":">>)
        prefix == Slice(value, 0, lastPathSeparator)
        rest == Slice(value, lastPathSeparator + 1, Len(value))
        ends == endsWithPathSeparator(value)
        newFile == [name |-> value, fileType |-> "",
                    action |-> IF write THEN "OpenFile" ELSE "NewFile"]
        created == [name |-> cur, fileType |-> "", action |-> "OpenFile"]
    IN IF origValue = <<>>
       THEN IF write /\ cur # <<>>
            THEN [st EXCEPT !.currentItems = <<created>> \o st.items,
                            !.activeItems = <<created>>]
            ELSE ShowItems(st)
       ELSE IF existingItem # 0
       THEN [st EXCEPT !.currentItems = st.items,
                       !.activeItems = <<st.items[existingItem]>>]
       ELSE IF lastPathSeparator # -1
       THEN IF rooted
            THEN stepIntoFolder(st, fromFilePath(prefix), "setValue", rest)
            ELSE stepIntoFolder(st, PathAppend(st.path, prefix), "setValue", rest)
       ELSE IF ends # None
       THEN IF ends[1] = <<"~">> \/ ends[1] = <<"@">>
            THEN stepIntoFolder(st, fromFilePath(ends[1]), "", <<>>)
            ELSE IF ends[1] = <<".", ".">> THEN stepOut(st)
            ELSE IF ends[1] = <<>> THEN stepIntoFolder(st, fromFilePath(<<"/">>), "", <<>>)
            ELSE stepIntoFolder(st, PathAppend(st.path, ends[1]), "", <<>>)
       ELSE [st EXCEPT !.currentItems = <<newFile>> \o st.items,
                       !.activeItems = <<newFile>>]

\* items.filter(item => this.file.contains(item.name))
Selected(list, f) == SelectSeq(list, LAMBDA item : f = Some(item.name))

\* s without its i-th element
RemoveAt(s, i) == [k \in 1..(Len(s) - 1) |-> IF k < i THEN s[k] ELSE s[k + 1]]

\* The end of update(), from `this.current.enabled = true`, and the caller's
\* `.then`: in write mode the handler runs on the value of this moment.
Finish(st, t, cur) ==
    LET st1 == IF write THEN onDidChangeValue(st, st.value, cur) ELSE st
    IN IF t.andThen = "setValue" THEN SetValue(st1, t.rest, "then") ELSE st1

\* An update() that offers nothing for what is neither file nor directory
CreateNothing == <<>>

\* The items of update() for what is neither file nor directory
CreateThisFolder == <<ActionItem("NewFolder")>>

\* update() resumes with the stat of the path it was called for, and reads
\* this.inActions and this.path as they are now.
AfterStat(st0, i, cur) ==
    LET t == st0.updates[i]
        stat == Stat(t.p)
        st == [st0 EXCEPT !.updates = RemoveAt(@, i)]
    IN IF stat = "File" /\ st.inActions
       THEN Finish([st EXCEPT !.items = FileActions, !.currentItems = FileActions,
                              !.itemsBy = t.by], t, cur)
       ELSE IF stat = "Directory" /\ st.inActions
       THEN Finish([st EXCEPT !.items = FolderActions, !.currentItems = FolderActions,
                              !.itemsBy = t.by], t, cur)
       ELSE IF stat = "Directory"
       THEN [st0 EXCEPT !.updates[i] = [stage |-> "read", p |-> st0.path, by |-> t.by,
                                        andThen |-> t.andThen, rest |-> t.rest,
                                        n |-> t.n]]
       ELSE Finish([st EXCEPT !.items = CreateThisFolder,
                              !.currentItems = CreateThisFolder,
                              !.itemsBy = t.by], t, cur)

\* update() resumes with the records of the directory it asked for; reading
\* what is not a directory rejects, and update() ends there.
AfterRead(st0, i, cur) ==
    LET t == st0.updates[i]
        st == [st0 EXCEPT !.updates = RemoveAt(@, i)]
        records == ReadDirectory(t.p)
    IN IF Stat(t.p) # "Directory" THEN st
       ELSE Finish([st EXCEPT !.items = records, !.currentItems = records,
                              !.activeItems = Selected(records, st.file),
                              !.itemsBy = t.by], t, cur)

\* The state a handler leaves, within the bounds of the model.
CommitState(st) ==
    /\ st.updateCount <= MaxUpdates
    /\ Len(st.path) <= MaxDepth
    /\ path' = st.path
    /\ file' = st.file
    /\ items' = st.items
    /\ currentItems' = st.currentItems
    /\ activeItems' = st.activeItems
    /\ navValue' = st.value
    /\ inActions' = st.inActions
    /\ pathHistory' = st.pathHistory
    /\ updates' = st.updates
    /\ autoCompletion' = st.autoCompletion
    /\ isAutoCompleteChange' = st.isAutoCompleteChange
    /\ lastNav' = st.lastNav
    /\ itemsBy' = st.itemsBy
    /\ updateCount' = st.updateCount
    /\ visible' = st.visible
    /\ Len(st.echoes) <= MaxEchoes
    /\ echoes' = st.echoes
    /\ UNCHANGED write

\* The state a handler leaves that touches neither the file system nor a
\* rename or delete in progress.
Commit(st) ==
    /\ CommitState(st)
    /\ UNCHANGED <<fsTree, keepAlive, hidePending, navDisposed, flow, ran>>

\* ---- Events of the file browser
\* The input box changes to v and the picker fires onDidChangeValue(v).
ChangeValue(v) ==
    \E cur \in EditorFiles :
        /\ visible
        /\ v # navValue
        /\ Commit(onDidChangeValue([NavState EXCEPT !.value = v], v, cur))
        /\ UNCHANGED nonNavVars

BrowserChangeValue == \E v \in NavValues : ChangeValue(v)

\* The picker fires onDidChangeValue for a write of the program: the value
\* is the written one again and the handler runs on it.
BrowserEcho ==
    \E cur \in EditorFiles :
        /\ echoes # <<>>
        /\ Commit(onDidChangeValue([NavState EXCEPT !.value = echoes[1].value,
                                                    !.echoes = Tail(@)],
                                   echoes[1].value, cur))
        /\ UNCHANGED nonNavVars

\* The step-out button: onDidTriggerButton(stepOutButton)
BrowserStepOut ==
    /\ visible
    /\ Commit(stepOut(NavState))
    /\ UNCHANGED nonNavVars

\* The actions button: onDidTriggerButton(actionsButton)
BrowserActions ==
    /\ visible
    /\ Commit(actions(NavState))
    /\ UNCHANGED nonNavVars

\* The file system answers a stat.
StatDone ==
    \E i \in 1..Len(updates), cur \in EditorFiles :
        /\ updates[i].stage = "stat"
        /\ Commit(AfterStat(NavState, i, cur))
        /\ UNCHANGED nonNavVars

\* The file system answers a readDirectory.
ReadDone ==
    \E i \in 1..Len(updates), cur \in EditorFiles :
        /\ updates[i].stage = "read"
        /\ Commit(AfterRead(NavState, i, cur))
        /\ UNCHANGED nonNavVars

\* new FileBrowser(path, file, context, opts): opened on the directory start
\* with one of files to select; the constructor has called update().
InitNavAt(tree, start, files) ==
    /\ path = start
    /\ file \in files
    /\ items = <<>>
    /\ currentItems = <<>>
    /\ activeItems = <<>>
    /\ navValue = <<>>
    /\ inActions = FALSE
    /\ pathHistory = [x \in {start} |-> file]
    /\ updates = << [stage |-> "stat", p |-> start, by |-> "constructor",
                     andThen |-> "", rest |-> <<>>, n |-> 1] >>
    /\ write \in BOOLEAN
    /\ autoCompletion = <<>>
    /\ isAutoCompleteChange = FALSE
    /\ lastNav = "constructor"
    /\ itemsBy = ""
    /\ updateCount = 1
    /\ fsTree = tree
    /\ keepAlive = FALSE
    /\ visible = TRUE
    /\ hidePending = FALSE
    /\ navDisposed = FALSE
    /\ flow = <<>>
    /\ echoes = <<>>
    /\ ran = <<>>

\* A session opened on /, with f selected when the active document is /f.
InitNavOn(tree) == InitNavAt(tree, <<>>, {None, Some(F)})

InitNav == InitNavOn(InitTree)

NextNav ==
    \/ BrowserChangeValue
    \/ BrowserEcho
    \/ BrowserStepOut
    \/ BrowserActions
    \/ StatDone
    \/ ReadDone

\* A session that only navigates.
InitBrowser == InitSearch /\ InitModuleIdle /\ InitPinIdle /\ InitNav /\ InitParseIdle

SpecNav == InitBrowser /\ [][NextNav]_vars

\* What update() shows for a path outside the actions menu.
Expected(p) ==
    IF Stat(p) = "Directory" THEN ReadDirectory(p) ELSE <<ActionItem("NewFolder")>>

\* C8: when the path transitions started by onDidChangeValue have finished,
\* the item list is the listing of the current path: no such transition is
\* overtaken by another handler's change of the path.
C8_ItemsAreListingOfCurrentPath ==
    (updates = <<>> /\ lastNav = "onDidChangeValue" /\ itemsBy = "onDidChangeValue")
        => items = Expected(path)

----------------------------------------------------------------------------
\* ---- runAction: the rename and the delete of the focused target

\* What the user enters at the rename prompt.
RenameNames == { <<"r">>, <<"g">> }

\* The go-ahead item of the delete confirmation.
GoAhead == <<"$(trash) Delete">>

\* The paths at and below p
Subtree(p) ==
    {q \in DOMAIN fsTree : Len(q) >= Len(p) /\ SubSeq(q, 1, Len(p)) = p}

\* vscode.workspace.fs.delete(uri, {recursive})
Delete(p) == [q \in DOMAIN fsTree \ Subtree(p) |-> fsTree[q]]

\* vscode.workspace.fs.rename(uri, newUri)
Rename(p, to) ==
    [q \in (DOMAIN fsTree \ Subtree(p))
            \cup {to \o SubSeq(x, Len(p) + 1, Len(x)) : x \in Subtree(p)} |->
        IF q \in DOMAIN fsTree \ Subtree(p) THEN fsTree[q]
        ELSE fsTree[p \o SubSeq(q, Len(to) + 1, Len(q))]]

\* A flow that is suspended at a stat, at a prompt or at a file operation.
FlowRunning == flow # <<>> /\ flow[1].stage \in {"stat", "prompt", "fs"}

\* The user moves the focus to an item of the list.
BrowserSelect ==
    \E i \in 1..Len(currentItems) :
        /\ visible
        /\ activeItems # <<currentItems[i]>>
        /\ activeItems' = <<currentItems[i]>>
        /\ UNCHANGED <<path, file, items, currentItems, navValue, inActions,
                       pathHistory, updates, write, autoCompletion,
                       isAutoCompleteChange, lastNav, itemsBy, updateCount, fsTree,
                       keepAlive, visible, hidePending, navDisposed, flow, echoes,
                       ran>>
        /\ UNCHANGED nonNavVars

\* this.current.enabled: update() ends with enabled = true, and its first
\* statement, enabled = false, is commented out, so nothing disables the
\* picker.
enabled == TRUE

\* onDidAccept() on a RenameFile or DeleteFile item: runAction up to its
\* first suspension, the stat of the target.
AcceptRenameOrDelete ==
    /\ visible
    /\ enabled
    /\ ~FlowRunning
    /\ activeItems # <<>>
    /\ activeItems[1].action \in {"RenameFile", "DeleteFile"}
    /\ autoCompletion' = <<>>
    /\ keepAlive' = TRUE
    /\ visible' = FALSE
    /\ hidePending' = TRUE
    /\ flow' = << [kind |-> activeItems[1].action, stage |-> "stat", uri |-> path,
                   isDir |-> FALSE, fileName |-> <<>>, newUri |-> <<>>,
                   result |-> <<>>, failed |-> FALSE] >>
    /\ UNCHANGED <<path, file, items, currentItems, activeItems, navValue, inActions,
                   pathHistory, updates, write, isAutoCompleteChange, lastNav,
                   itemsBy, updateCount, fsTree, navDisposed, echoes, ran>>
    /\ UNCHANGED nonNavVars

\* The picker's onDidHide: dispose() unless keepAlive.
BrowserOnDidHide ==
    /\ hidePending
    /\ hidePending' = FALSE
    /\ navDisposed' = (navDisposed \/ ~keepAlive)
    /\ UNCHANGED <<path, file, items, currentItems, activeItems, navValue, inActions,
                   pathHistory, updates, write, autoCompletion, isAutoCompleteChange,
                   lastNav, itemsBy, updateCount, fsTree, keepAlive, visible, flow,
                   echoes, ran>>
    /\ UNCHANGED nonNavVars

\* The end of the two cases of runAction: show(), keepAlive = false,
\* inActions = false, update().
Resume(st) == update([st EXCEPT !.visible = TRUE, !.inActions = FALSE], "runAction", "", <<>>)

\* this.path.pop(): the last segment, None for a path at its top
pop(p) == IF atTop(p) THEN None ELSE Some(p[Len(p)])

\* A rename or delete that goes on whatever pop() returned
ReachesPromptUnchecked(stat, popped) == stat # "None"

\* rename() and the DeleteFile case go on to their prompt when the stat of
\* the target has not rejected and unwrapOrElse has not thrown for what
\* pop() returned.
ReachesPrompt(stat, popped) == stat # "None" /\ popped # None

\* The stat of the target answers: it rejects for a target that is not
\* there; pop() of a path at its top throws; else the prompt is shown.
FlowStat ==
    /\ flow # <<>>
    /\ flow[1].stage = "stat"
    /\ IF ~ReachesPrompt(Stat(flow[1].uri), pop(path))
       THEN /\ flow' = << [flow[1] EXCEPT !.stage = "thrown"] >>
            /\ UNCHANGED path
       ELSE /\ flow' = << [flow[1] EXCEPT !.stage = "prompt",
                                          !.isDir = Stat(flow[1].uri) = "Directory",
                                          !.fileName = IF pop(path) = None THEN <<>>
                                                       ELSE pop(path)[1]] >>
            /\ path' = SubSeq(path, 1, Len(path) - 1)
    /\ UNCHANGED <<file, items, currentItems, activeItems, navValue, inActions,
                   pathHistory, updates, write, autoCompletion, isAutoCompleteChange,
                   lastNav, itemsBy, updateCount, fsTree, keepAlive, visible,
                   hidePending, navDisposed, echoes, ran>>
    /\ UNCHANGED nonNavVars

\* The prompt closes: showInputBox answers a name or undefined, showQuickPick
\* answers the go-ahead or something else.
FlowPrompt ==
    \E result \in {None} \cup {Some(n) : n \in RenameNames \cup {GoAhead}} :
        /\ flow # <<>>
        /\ flow[1].stage = "prompt"
        /\ (result = Some(GoAhead)) => flow[1].kind = "DeleteFile"
        /\ (result \notin {None, Some(GoAhead)}) => flow[1].kind = "RenameFile"
        /\ ~hidePending
        /\ LET st == IF flow[1].kind = "RenameFile"
                     THEN [NavState EXCEPT !.file = Some(flow[1].fileName)]
                     ELSE NavState
           IN IF result = None
              THEN /\ CommitState(Resume(st))
                   /\ keepAlive' = FALSE
                   /\ flow' = << [flow[1] EXCEPT !.stage = "done"] >>
              ELSE /\ CommitState(st)
                   /\ flow' = IF flow[1].kind = "RenameFile"
                              THEN << [flow[1] EXCEPT
                                          !.stage = "fs", !.result = result[1],
                                          !.newUri = path \o Segments(result[1])] >>
                              ELSE << [flow[1] EXCEPT !.stage = "fs"] >>
                   /\ UNCHANGED keepAlive
        /\ UNCHANGED <<fsTree, hidePending, navDisposed, ran>>
        /\ UNCHANGED nonNavVars

\* The rename or the delete answers, done or failed.
FlowFileOperation ==
    \E ok \in BOOLEAN :
        /\ flow # <<>>
        /\ flow[1].stage = "fs"
        /\ LET f == flow[1]
               done == /\ ok
                       /\ f.uri \in DOMAIN fsTree
                       /\ f.kind = "RenameFile" => f.newUri \notin DOMAIN fsTree
               st == IF done /\ f.kind = "RenameFile"
                     THEN [NavState EXCEPT !.file = Some(f.result)]
                     ELSE NavState
           IN /\ fsTree' = IF ~done THEN fsTree
                           ELSE IF f.kind = "RenameFile" THEN Rename(f.uri, f.newUri)
                           ELSE Delete(f.uri)
              /\ flow' = << [f EXCEPT !.stage = "done", !.failed = ~done] >>
              /\ CommitState(Resume(st))
        /\ keepAlive' = FALSE
        /\ UNCHANGED <<hidePending, navDisposed, ran>>
        /\ UNCHANGED nonNavVars

NextFlow ==
    \/ BrowserSelect
    \/ BrowserActions
    \/ BrowserStepOut
    \/ StatDone
    \/ ReadDone
    \/ AcceptRenameOrDelete
    \/ BrowserOnDidHide
    \/ FlowStat
    \/ FlowPrompt
    \/ FlowFileOperation

SpecFlow == InitBrowser /\ [][NextFlow]_vars

\* C12: every rename or delete of runAction, whatever its outcome, ends with
\* the picker shown again, keepAlive = false and inActions = false.
C12_FlowEndsShownAndBrowsing ==
    [][(FlowRunning /\ ~FlowRunning') => (visible' /\ ~keepAlive' /\ ~inActions')]_vars


----------------------------------------------------------------------------
\* ---- onDidAccept, stepIn and runAction

\* No action of runAction is suspended.
FlowIdle == IF flow = <<>> THEN TRUE ELSE flow[1].stage \in {"done", "thrown"}

\* A call of runAction that suspends: `kind` at `stage`, for the path uri.
Suspended(kind, stage, uri) ==
    << [kind |-> kind, stage |-> stage, uri |-> uri, isDir |-> FALSE,
        fileName |-> <<>>, newUri |-> <<>>, result |-> <<>>, failed |-> FALSE] >>

\* A handler that ends in the call r and leaves the picker as it is
Call(st, r) ==
    /\ CommitState(st)
    /\ ran' = r
    /\ UNCHANGED <<fsTree, keepAlive, hidePending, navDisposed, flow>>

\* ... and calls hide()
CallAndHide(st, r) ==
    /\ CommitState([st EXCEPT !.visible = FALSE])
    /\ ran' = r
    /\ hidePending' = TRUE
    /\ UNCHANGED <<fsTree, keepAlive, navDisposed, flow>>

\* openFile(uri): dispose(); in write mode the text of the active document
\* is written to uri, unless there is none, and a failure of that is
\* reported; then the document of uri is opened.
openFile(st, uri, cur, ok) ==
    /\ CommitState([st EXCEPT !.visible = FALSE])
    /\ navDisposed' = TRUE
    /\ IF write /\ cur = <<>>
       THEN ran' = [call |-> "dispose", uri |-> uri] /\ UNCHANGED fsTree
       ELSE /\ ran' = [call |-> "openTextDocument", uri |-> uri]
            /\ IF write /\ ok /\ \A k \in 0..(Len(uri) - 1) :
                                      Stat(SubSeq(uri, 1, k)) # "File"
               THEN fsTree' = [q \in DOMAIN fsTree \cup
                                       {SubSeq(uri, 1, k) : k \in 0..Len(uri)} |->
                                  IF q = uri THEN "File"
                                  ELSE IF q \in DOMAIN fsTree THEN fsTree[q]
                                  ELSE "Directory"]
               ELSE UNCHANGED fsTree
    /\ UNCHANGED <<keepAlive, hidePending, flow>>

\* runAction(item), up to its end or to its first suspension
runAction(item, st, cur, ok) ==
    CASE item.action = "NewFolder" ->
            /\ CommitState(st)
            /\ flow' = Suspended("NewFolder", "mkdir", st.path)
            /\ UNCHANGED <<fsTree, keepAlive, hidePending, navDisposed, ran>>
      [] item.action = "NewFile" ->
            openFile(st, PathAppend(st.path, item.name), cur, ok)
      [] item.action \in {"OpenFile", "OpenFileBeside"} ->
            openFile(st, IF item.name # <<>> THEN Append(st.path, item.name) ELSE st.path,
                     cur, ok)
      [] item.action \in {"RenameFile", "DeleteFile"} ->
            /\ CommitState([st EXCEPT !.visible = FALSE])
            /\ keepAlive' = TRUE
            /\ hidePending' = TRUE
            /\ flow' = Suspended(item.action, "stat", st.path)
            /\ UNCHANGED <<fsTree, navDisposed, ran>>
      [] item.action \in {"OpenFolder", "OpenFolderInNewWindow"} ->
            Call(st, [call |-> "vscode.openFolder", uri |-> st.path])
      [] item.action = "Pin" ->
            CallAndHide(st, [call |-> "togglePin", uri |-> st.path])
      [] item.action = "OpenPin" ->
            LET arg == item.arg
                to == fromFilePath(Chars(arg.fsPath))
            IN IF arg.type = "Directory"
               THEN Call(update([st EXCEPT !.path = to, !.inActions = FALSE],
                                "runAction", "", <<>>), ran)
               ELSE openFile([st EXCEPT !.path = to], to, cur, ok)
      [] item.action \in {"FindFiles", "FindFilesContent"} ->
            /\ CommitState(st)
            /\ flow' = Suspended(item.action, "find", st.path)
            /\ UNCHANGED <<fsTree, keepAlive, hidePending, navDisposed, ran>>
      [] item.action = Tag("CopyPath") ->
            CallAndHide(st, [call |-> "clipboard.writeText", uri |-> st.path])
      [] OTHER ->
            Call(st, [call |-> "throw", uri |-> st.path])

\* stepIn()
stepIn(st, cur, ok) ==
    IF st.activeItems = <<>> THEN Call(st, ran)
    ELSE LET item == st.activeItems[1]
         IN IF item.action # "" THEN runAction(item, st, cur, ok)
            ELSE IF item.fileType = "Directory"
            THEN Call(stepIntoFolder(st, Append(st.path, item.name), "", <<>>), ran)
            ELSE IF item.fileType = "File"
            THEN Call(update([st EXCEPT !.path = Append(@, item.name),
                                        !.file = None,
                                        !.inActions = TRUE,
                                        !.lastNav = "stepIn"],
                             "stepIn", "", <<>>), ran)
            ELSE Call(st, ran)

\* onDidAccept()
onDidAccept(st0, cur, ok) ==
    LET st == [st0 EXCEPT !.autoCompletion = <<>>]
    IN IF st.activeItems = <<>> THEN Call(st, ran)
       ELSE LET item == st.activeItems[1]
            IN IF item.action # "" THEN runAction(item, st, cur, ok)
               ELSE IF item.fileType = "Directory" THEN stepIn(st, cur, ok)
               ELSE openFile(st, PathAppend(st.path, item.name), cur, ok)

\* The step-in button: onDidTriggerButton(stepInButton)
BrowserStepIn ==
    \E cur \in EditorFiles, ok \in BOOLEAN :
        /\ visible
        /\ FlowIdle
        /\ stepIn(NavState, cur, ok)
        /\ UNCHANGED nonNavVars

\* The picker fires onDidAccept.
BrowserAccept ==
    \E cur \in EditorFiles, ok \in BOOLEAN :
        /\ visible
        /\ enabled
        /\ FlowIdle
        /\ onDidAccept(NavState, cur, ok)
        /\ UNCHANGED nonNavVars

\* createDirectory of the NewFolder action answers: it makes the directory
\* and those above it, and rejects where a file is in the way; runAction
\* goes on to update() or ends with the rejection.
CreateDirectoryDone ==
    \E ok \in BOOLEAN :
        /\ flow # <<>>
        /\ flow[1].stage = "mkdir"
        /\ LET uri == flow[1].uri
               done == ok /\ \A k \in 0..Len(uri) : Stat(SubSeq(uri, 1, k)) # "File"
           IN IF done
              THEN /\ fsTree' = [q \in DOMAIN fsTree \cup
                                        {SubSeq(uri, 1, k) : k \in 0..Len(uri)} |->
                                   IF q \in DOMAIN fsTree THEN fsTree[q] ELSE "Directory"]
                   /\ flow' = << [flow[1] EXCEPT !.stage = "done"] >>
                   /\ CommitState(update(NavState, "runAction", "", <<>>))
              ELSE /\ flow' = << [flow[1] EXCEPT !.stage = "thrown", !.failed = TRUE] >>
                   /\ CommitState(NavState)
                   /\ UNCHANGED fsTree
        /\ UNCHANGED <<keepAlive, hidePending, navDisposed, ran>>
        /\ UNCHANGED nonNavVars

\* The stat of FindFiles or FindFilesContent answers: searchDirs opens the
\* search session on the directory, or on the one that holds the file; a
\* stat that rejects ends runAction.
FindStat ==
    /\ flow # <<>>
    /\ flow[1].stage = "find"
    /\ LET uri == flow[1].uri
       IN IF Stat(uri) = "None"
          THEN /\ flow' = << [flow[1] EXCEPT !.stage = "thrown", !.failed = TRUE] >>
               /\ UNCHANGED ran
          ELSE /\ flow' = << [flow[1] EXCEPT !.stage = "done"] >>
               /\ ran' = [call |-> "searchDirs",
                          uri |-> IF Stat(uri) = "Directory" THEN uri
                                  ELSE SubSeq(uri, 1, Len(uri) - 1),
                          searchFileNameOnly |-> flow[1].kind = "FindFiles"]
    /\ UNCHANGED <<path, file, items, currentItems, activeItems, navValue, inActions,
                   pathHistory, updates, write, autoCompletion, isAutoCompleteChange,
                   lastNav, itemsBy, updateCount, fsTree, keepAlive, visible,
                   hidePending, navDisposed, echoes>>
    /\ UNCHANGED nonNavVars

\* The session in which the user walks the tree, opens the action menus and
\* accepts their entries.
NextMenu ==
    \/ BrowserSelect
    \/ BrowserActions
    \/ BrowserStepOut
    \/ BrowserStepIn
    \/ BrowserAccept
    \/ StatDone
    \/ ReadDone
    \/ BrowserOnDidHide
    \/ FlowStat
    \/ FlowPrompt
    \/ FlowFileOperation
    \/ CreateDirectoryDone
    \/ FindStat

SpecMenu == InitBrowser /\ [][NextMenu]_vars


----------------------------------------------------------------------------
\* ---- tabCompletion: cycling through the entries that match the input

FG == <<"f", "g">>

\* The file system of the completion sessions: /f and /fg are files, /s is a
\* directory with the file g and the empty directory t.
TabTree ==
    [p \in {<<>>, <<F>>, <<FG>>, <<S>>, <<S, G>>, <<S, T>>} |->
        IF p \in {<<F>>, <<FG>>, <<S, G>>} THEN "File" ELSE "Directory"]

\* What the user types in these sessions: "", "f", "s".
TabValues == { <<>>, F, S }

\* name.indexOf(value)
IndexOf(name, value) ==
    LET at == {i \in 0..(Len(name) - Len(value)) :
                    SubSeq(name, i + 1, i + Len(value)) = value}
    IN IF at = {} THEN -1 ELSE CHOOSE i \in at : \A j \in at : i <= j

\* name.toLowerCase().indexOf(this.current.value.toLowerCase())
IndexIn(name, value) == IndexOf(toLowerCase(name), toLowerCase(value))

\* A comparison by the name alone
TabBeforeByName(a, b, value) == NameLess(toLowerCase(a.name), toLowerCase(b.name))

\* The comparison of the sort of tabCompletion: by the index of the input in
\* the name, then by the name, both in lower case.
TabBefore(a, b, value) ==
    \/ IndexIn(a.name, value) < IndexIn(b.name, value)
    \/ /\ IndexIn(a.name, value) = IndexIn(b.name, value)
       /\ NameLess(toLowerCase(a.name), toLowerCase(b.name))

RECURSIVE TabSort(_, _)
\* Array.prototype.sort with that comparison (stable)
TabSort(list, value) ==
    IF list = <<>> THEN <<>>
    ELSE LET i == CHOOSE k \in 1..Len(list) :
                    /\ \A j \in 1..Len(list) : ~TabBefore(list[j], list[k], value)
                    /\ \A j \in 1..(k - 1) : TabBefore(list[k], list[j], value)
                                             \/ TabBefore(list[j], list[k], value)
         IN <<list[i]>> \o TabSort(RemoveAt(list, i), value)

\* The candidates of a first tab press: this.items.filter(...).sort(...)
Candidates(list, value) ==
    TabSort(SelectSeq(list, LAMBDA i : IndexIn(i.name, value) # -1), value)

\* index + step, without the wrap
AdvanceNoWrap(cursor, tabNext) ==
    [cursor EXCEPT !.index = cursor.index + (IF tabNext THEN 1 ELSE -1)]

\* (index + length + step) % length of JavaScript: NaN when length is 0
Advance(cursor, tabNext) ==
    LET length == Len(cursor.items)
        step == IF tabNext THEN 1 ELSE -1
    IN IF length = 0 \/ cursor.nan
       THEN [cursor EXCEPT !.nan = TRUE]
       ELSE [cursor EXCEPT !.index = (cursor.index + length + step) % length]

\* tabCompletion(tabNext) past its first statement: the cursor is advanced or
\* built, and the candidate it names is written to the input.
Complete(st, tabNext) ==
    LET cursor ==
            IF st.autoCompletion # <<>>
            THEN Advance(st.autoCompletion[1], tabNext)
            ELSE LET found == Candidates(st.items, st.value)
                 IN [index |-> IF tabNext THEN 0 ELSE Len(found) - 1,
                     nan |-> FALSE, items |-> found]
        newIndex == cursor.index
        length == Len(cursor.items)
        st1 == [st EXCEPT !.autoCompletion = <<cursor>>]
    IN IF ~cursor.nan /\ newIndex < length
       THEN IF newIndex < 0
            \* items[-1] is undefined: `item.name` throws after the flag is set
            THEN [st1 EXCEPT !.isAutoCompleteChange = TRUE]
            ELSE LET item == cursor.items[newIndex + 1]
                 IN IF length = 1 /\ item.fileType = "Directory"
                    THEN SetValue(st1, item.name \o <<"/">>, "tab")
                    ELSE SetValue([st1 EXCEPT !.isAutoCompleteChange = TRUE],
                                  item.name, "tab")
       ELSE st1

\* A tab completion that does not look at inActions
tabCompletionInMenu(st, tabNext) == Complete(st, tabNext)

\* tabCompletion(tabNext)
tabCompletion(st, tabNext) ==
    IF st.inActions THEN st ELSE Complete(st, tabNext)

\* The commands file-browser.tabNext and file-browser.tabPrev
Tab(tabNext) ==
    /\ visible
    /\ Commit(tabCompletion(NavState, tabNext))
    /\ UNCHANGED nonNavVars

BrowserTab == \E tabNext \in BOOLEAN : Tab(tabNext)

\* The user edits the input of a completion session.
BrowserType == \E v \in TabValues : ChangeValue(v)

NextTab ==
    \/ BrowserType
    \/ BrowserEcho
    \/ BrowserTab
    \/ StatDone
    \/ ReadDone

\* A session in read mode, opened on the root with no file to select.
InitCompletion ==
    InitSearch /\ InitModuleIdle /\ InitPinIdle /\ InitNavOn(TabTree) /\ InitParseIdle /\ ~write
        /\ file = None

SpecTab == InitCompletion /\ [][NextTab]_vars

\* A change event that no tab press caused is handled while browsing.
ForeignChange ==
    /\ ~inActions
    /\ \/ BrowserType
       \/ BrowserEcho /\ echoes[1].by # "tab"

\* C13: every change of the input that tab completion did not cause discards
\* the completion cursor, so that the next tab press builds its candidates
\* anew; only the change a tab press wrote keeps the cursor.
C13_ForeignChangeDiscardsCursor ==
    [][ForeignChange => autoCompletion' = <<>>]_vars


\* The cursor of a session that has candidates.
HasCandidates == autoCompletion # <<>> /\ Len(autoCompletion[1].items) >= 1

RECURSIVE Presses(_, _)
\* n tab-forward presses on a cursor
Presses(cursor, n) == IF n = 0 THEN cursor ELSE Presses(Advance(cursor, TRUE), n - 1)

\* The cycle of a cursor over N candidates: the index is one of 0..N-1, N
\* presses forward lead back to it, and forward and backward undo each other.
CycleLaws(cursor) ==
    LET N == Len(cursor.items)
    IN /\ ~cursor.nan
       /\ cursor.index \in 0..(N - 1)
       /\ Presses(cursor, N) = cursor
       /\ Advance(Advance(cursor, TRUE), FALSE) = cursor
       /\ Advance(Advance(cursor, FALSE), TRUE) = cursor

\* What the input shows for a cursor: the candidate's name, followed by a
\* separator when the only candidate is a directory.
Shown(cursor) ==
    LET item == cursor.items[cursor.index + 1]
    IN IF Len(cursor.items) = 1 /\ item.fileType = "Directory"
       THEN item.name \o <<"/">>
       ELSE item.name

\* A tab press while browsing that leaves a cursor with candidates.
TabOnCandidates == BrowserTab /\ ~inActions /\ HasCandidates'

\* A press on an existing cursor moves it one candidate on or back.
Cycled ==
    (autoCompletion # <<>>) =>
        \E tabNext \in BOOLEAN : autoCompletion' = <<Advance(autoCompletion[1], tabNext)>>

SingleDirectoryEcho ==
    /\ BrowserEcho
    /\ ~inActions
    /\ echoes[1].by = "tab"
    /\ HasCandidates
    /\ Len(autoCompletion[1].items) = 1
    /\ autoCompletion[1].items[1].fileType = "Directory"
    /\ echoes[1].value = autoCompletion[1].items[1].name \o <<"/">>

\* C15: a tab press that finds a directory as its only candidate writes the
\* name and one separator, and that write does not close the completion: its
\* change event keeps the cursor.
C15_SingleDirectoryKeepsCompletion ==
    [][SingleDirectoryEcho => autoCompletion' # <<>>]_vars


----------------------------------------------------------------------------
\* ---- Stepping into a directory by typing its name and a separator

\* What the user types in the sessions of this part: "", "s/", "n".
TypedValues == { <<>>, <<"s", "/">>, <<"n">> }

BrowserInput == \E v \in TypedValues : ChangeValue(v)

NextInput ==
    \/ BrowserInput
    \/ BrowserEcho
    \/ BrowserStepOut
    \/ StatDone
    \/ ReadDone

\* A session opened on /s, with g selected when the active document is /s/g.
InitInput ==
    InitSearch /\ InitModuleIdle /\ InitPinIdle /\ InitNavAt(InitTree, <<S>>, {None, Some(G)})
        /\ InitParseIdle

SpecInput == InitInput /\ [][NextInput]_vars

\* The user types name/ for the subdirectory name of the current path.
TypesSubdirectory(name) ==
    /\ ~inActions
    /\ Stat(Append(path, name)) = "Directory"
    /\ updateCount' = updateCount + 1
    /\ ChangeValue(name \o <<"/">>)

\* The refresh that update() started last delivers its listing: no handler
\* has called update() after the one that started it.
LatestStepInCompletes(t) ==
    /\ t.stage = "read"
    /\ t.by = "onDidChangeValue"
    /\ t.andThen = ""
    /\ t.n = updateCount
    /\ updates' = SelectSeq(updates, LAMBDA u : u # t)
    /\ ReadDone

\* C16: typing name/ for an existing subdirectory steps into current/name
\* and empties the input; when the refresh of that transition has completed,
\* the path is current/name, the item list is the listing of that
\* directory, and the input, if nothing was typed since, is still empty.
C16_TypedSubdirectoryIsEntered ==
    /\ [][\A name \in {S, T} : TypesSubdirectory(name) =>
            /\ path' = Append(path, name)
            /\ navValue' = <<>>
            /\ updates'[Len(updates')].p = path'
            /\ updates'[Len(updates')].n = updateCount']_vars
    /\ [][\A i \in 1..Len(updates) : LatestStepInCompletes(updates[i]) =>
            /\ path' = updates[i].p
            /\ items' = ReadDirectory(path')
            /\ (navValue = <<>> => navValue' = <<>>)]_vars

\* The user has stepped from / into /s by typing, and the listing of /s is
\* there with an empty input.
C16_Witness ==
    /\ path = <<S>>
    /\ lastNav = "onDidChangeValue"
    /\ itemsBy = "onDidChangeValue"
    /\ updates = <<>>
    /\ items = ReadDirectory(<<S>>)
    /\ items # <<>>
    /\ navValue = <<>>


\* The user types v, which has no separator and is the name of no entry,
\* while browsing.
TypesNewName(v) ==
    /\ ~inActions
    /\ v # <<>>
    /\ \A k \in 1..Len(v) : v[k] # "/"
    /\ \A k \in 1..Len(items) : items[k].name # v
    /\ navValue' = v
    /\ ChangeValue(v)

\* C17: typing a value that has no separator and is the name of no entry puts
\* exactly one synthetic entry of that name before the entries and selects
\* it; its action is NewFile, and OpenFile in write mode; the item list and
\* the path of the navigator stay as they are.
C17_NewNamePrependsOneEntry ==
    [][\A v \in TypedValues : TypesNewName(v) =>
        LET newItem == [name |-> v, fileType |-> "",
                        action |-> IF write THEN "OpenFile" ELSE "NewFile"]
        IN /\ currentItems' = <<newItem>> \o items
           /\ activeItems' = <<newItem>>
           /\ items' = items
           /\ path' = path
           /\ updates' = updates]_vars

\* The entry for the typed name n leads the listing of a directory and is
\* selected.
C17_Witness ==
    /\ navValue = <<"n">>
    /\ items # <<>>
    /\ items = ReadDirectory(path)
    /\ Len(currentItems) = Len(items) + 1
    /\ currentItems[1].name = <<"n">>
    /\ currentItems[1].action \in {"NewFile", "OpenFile"}
    /\ activeItems = <<currentItems[1]>>


\* A change event with the empty value is handled in read mode while
\* browsing: the user cleared the input, or the picker reports a write of the
\* empty value by the program.
EmptyValueHandled ==
    /\ ~write
    /\ ~inActions
    /\ navValue' = <<>>
    /\ \/ ChangeValue(<<>>)
       \/ echoes # <<>> /\ echoes[1].value = <<>> /\ BrowserEcho

\* C18: in read mode the empty input shows exactly the item list of the
\* directory, in its order, with no entry selected; so it is too when the
\* change event of the empty value that a refresh wrote follows the
\* selection that refresh made from the path history.
C18_EmptyInputShowsItems ==
    [][EmptyValueHandled =>
        /\ currentItems' = items
        /\ activeItems' = <<>>
        /\ items' = items
        /\ path' = path]_vars

\* Typing s/ has stepped into /s, whose refresh selected g from the path
\* history, and the change event of the empty value that refresh wrote has
\* been handled since.
C18_Witness ==
    /\ ~write
    /\ path = <<S>>
    /\ file = Some(G)
    /\ file = HistoryAt(pathHistory, path)
    /\ lastNav = "onDidChangeValue"
    /\ itemsBy = "onDidChangeValue"
    /\ updates = <<>>
    /\ echoes = <<>>
    /\ navValue = <<>>
    /\ items = ReadDirectory(<<S>>)
    /\ Selected(items, file) # <<>>
    /\ currentItems = items
    /\ activeItems = <<>>


----------------------------------------------------------------------------
\* ---- updateSearch: the query built from the input of the search picker

MaxQueryLen == 4

\* The characters of a query: a dash, a space, a quote and the letters g, x.
QueryChars == {"-", " ", "\"", "g", "x"}

\* The inputs of updateSearch that are not empty.
QueryValues == UNION {[1..n -> QueryChars] : n \in 1..MaxQueryLen}

\* [a-z]
IsLetter(c) == c \in {"g", "x", "i"}

\* isOption(s): /^--?[a-z]+/.test(s)
isOption(s) ==
    /\ Len(s) >= 2
    /\ s[1] = "-"
    /\ \/ IsLetter(s[2])
       \/ Len(s) >= 3 /\ s[2] = "-" /\ IsLetter(s[3])

\* isWordQuoted(s): /^".*"/.test(s)
isWordQuoted(s) ==
    /\ Len(s) >= 2
    /\ s[1] = "\""
    /\ \E k \in 2..Len(s) : s[k] = "\""

\* curr.replace(/"/g, "")
StripQuotes(s) == SelectSeq(s, LAMBDA c : c # "\"")

RECURSIVE Split(_)
\* value.split(/\s/)
Split(value) ==
    IF \A k \in 1..Len(value) : value[k] # " " THEN <<value>>
    ELSE LET k == CHOOSE i \in 1..Len(value) :
                    value[i] = " " /\ \A j \in 1..(i - 1) : value[j] # " "
         IN <<SubSeq(value, 1, k - 1)>> \o Split(SubSeq(value, k + 1, Len(value)))

\* The callback of the reduce in updateSearch
Reduce(acc, curr, index) ==
    IF index = 0 \/ isOption(curr) \/ isOption(acc[Len(acc)])
    THEN IF ~isWordQuoted(curr) /\ ~isOption(curr)
         THEN acc \o << <<"-", "i">>, curr >>
         ELSE Append(acc, StripQuotes(curr))
    ELSE [acc EXCEPT ![Len(acc)] = @ \o <<" ">> \o curr]

\* updateSearch(value) is called with an input that is not empty.
InitQuery ==
    /\ qValue \in QueryValues
    /\ qTokens = Split(qValue)
    /\ qIndex = 0
    /\ qAcc = <<>>
    /\ execDir = <<>>
    /\ parts = <<>>
    /\ stdout = <<>>
    /\ stderr = FALSE
    /\ settled = ""
    /\ resolved = <<>>
    /\ accepted = <<>>

\* One call of the callback of the reduce.
ReduceStep ==
    /\ qIndex < Len(qTokens)
    /\ qAcc' = Reduce(qAcc, qTokens[qIndex + 1], qIndex)
    /\ qIndex' = qIndex + 1
    /\ UNCHANGED <<qValue, qTokens, execDir, parts, stdout, stderr, settled, resolved,
                   accepted>>
    /\ UNCHANGED nonParseVars

NextQuery == ReduceStep

InitTokenizer == InitSearch /\ InitModuleIdle /\ InitPinIdle /\ InitNavIdle /\ InitQuery

SpecQuery == InitTokenizer /\ [][NextQuery]_vars

\* C19: the token that follows a flag is passed on as it is, as the argument
\* of the flag, with no -i before it; only a first token or a token that
\* stands alone gets the -i.
C19_FlagArgumentVerbatim ==
    [][(/\ qIndex >= 1
        /\ qIndex < Len(qTokens)
        /\ isOption(qTokens[qIndex])
        /\ ~isOption(qTokens[qIndex + 1]))
        => qAcc' = Append(qAcc, StripQuotes(qTokens[qIndex + 1]))]_vars


----------------------------------------------------------------------------
\* ---- fetchItemsSearchContent: the items read from the output of a search

MAX_DESC_LENGTH == 1000

\* A text is a sequence of runs [c, k]: the character c, k times.
Txt(str) == [i \in 1..Len(str) |-> [c |-> str[i], k |-> 1]]

Run(c, n) == IF n = 0 THEN <<>> ELSE <<[c |-> c, k |-> n]>>

RECURSIVE TxtLen(_)
\* text.length
TxtLen(t) == IF t = <<>> THEN 0 ELSE t[1].k + TxtLen(Tail(t))

RECURSIVE SplitOn(_, _)
\* text.split(sep), for a separator that no run repeats
SplitOn(t, sep) ==
    IF \A i \in 1..Len(t) : t[i].c # sep THEN <<t>>
    ELSE LET i == CHOOSE x \in 1..Len(t) :
                    t[x].c = sep /\ \A j \in 1..(x - 1) : t[j].c # sep
         IN <<SubSeq(t, 1, i - 1)>> \o SplitOn(SubSeq(t, i + 1, Len(t)), sep)

RECURSIVE JoinWith(_, _)
\* list.join(sep)
JoinWith(list, sep) ==
    IF list = <<>> THEN <<>>
    ELSE IF Len(list) = 1 THEN list[1]
    ELSE list[1] \o Txt(<<sep>>) \o JoinWith(Tail(list), sep)

RECURSIVE TrimStart(_)
TrimStart(t) == IF t # <<>> /\ t[1].c \in {" ", "\t"} THEN TrimStart(Tail(t)) ELSE t

RECURSIVE TrimEnd(_)
TrimEnd(t) ==
    IF t # <<>> /\ t[Len(t)].c \in {" ", "\t"} THEN TrimEnd(SubSeq(t, 1, Len(t) - 1)) ELSE t

\* text.trim()
Trim(t) == TrimEnd(TrimStart(t))

\* text.substring(1, text.length)
Substring1(t) ==
    IF t = <<>> THEN <<>>
    ELSE IF t[1].k > 1 THEN <<[t[1] EXCEPT !.k = @ - 1]>> \o Tail(t)
    ELSE Tail(t)

DigitValue(c) == CASE c = "0" -> 0 [] c = "1" -> 1 [] c = "2" -> 2

RECURSIVE Decimal(_, _)
Decimal(t, acc) ==
    IF t = <<>> THEN acc ELSE Decimal(Tail(t), 10 * acc + DigitValue(t[1].c))

\* Number(num) for an element of the split that may be missing: None is NaN.
\* The texts of the model are digits, or hold a letter.
Number(num) ==
    IF num = None THEN None
    ELSE IF \A i \in 1..Len(num[1]) : num[1][i].c \in {"0", "1", "2"} /\ num[1][i].k = 1
    THEN Some(Decimal(num[1], 0))
    ELSE None

\* A filter that keeps every line
KeepsAll(description, num) == TRUE

\* description.length < MAX_DESC_LENGTH && !!num
Keeps(description, num) ==
    /\ TxtLen(description) < MAX_DESC_LENGTH
    /\ num # None
    /\ num[1] # 0

\* The first map of the callback: a line as fullPath, num and description
Fields(line) ==
    LET split == SplitOn(line, ":")
    IN [fullPath |-> split[1],
        num |-> Number(IF Len(split) >= 2 THEN Some(split[2]) ELSE None),
        description |-> Trim(JoinWith(SubSeq(split, 3, Len(split)), ":"))]

\* The second map of the callback: the item of a line that was kept; a num
\* that is NaN is written -1.
Item(f, dir) ==
    LET segments == SplitOn(f.fullPath, "/")
        num == IF f.num = None THEN -1 ELSE f.num[1]
    IN [label |-> <<segments[Len(segments)], num>>,
        description |-> f.description,
        detail |-> dir \o Substring1(f.fullPath),
        num |-> num]

\* What the callback of cp.exec resolves to
ParseOutput(out, dir) ==
    LET lines == SelectSeq(SplitOn(out, "\n"), LAMBDA l : l # <<>>)
        fields == [i \in 1..Len(lines) |-> Fields(lines[i])]
        kept == SelectSeq(fields, LAMBDA f : Keeps(f.description, f.num))
    IN [i \in 1..Len(kept) |-> Item(kept[i], dir)]

\* The directories searched: /d, and the empty name that is rejected.
SearchDirs == { Txt(<<"/", "d">>), <<>> }

SrcXTs == <<"s", "r", "c", "/", "x", ".", "t", "s">>

\* The path of an output line, with what follows its first character.
LinePaths ==
    { [text |-> Txt(SrcXTs), tail |-> Txt(Tail(SrcXTs)), rel |-> Txt(SrcXTs)],
      [text |-> Txt(<<".", "/">> \o SrcXTs), tail |-> Txt(<<"/">> \o SrcXTs),
       rel |-> Txt(SrcXTs)] }

\* The line number of an output line, with its value: -1 for what is no number.
LineNums ==
    { [text |-> Txt(<<"1", "2">>), n |-> 12],
      [text |-> Txt(<<"0">>), n |-> 0],
      [text |-> Txt(<<"a">>), n |-> -1],
      [text |-> <<>>, n |-> -1] }

\* The rest of an output line, with what is between its outer white space.
LineRests ==
    LET fooBarBaz == Txt(<<"f", "o", "o", " ", "b", "a", "r", " ", "b", "a", "z">>)
    IN { [raw |-> fooBarBaz, core |-> fooBarBaz],
         [raw |-> Txt(<<"a", ":", "b">>), core |-> Txt(<<"a", ":", "b">>)],
         [raw |-> Txt(<<"H", "i", "s", "t", "o", "r", "y">>),
          core |-> Txt(<<"H", "i", "s", "t", "o", "r", "y">>)],
         [raw |-> Run("y", MAX_DESC_LENGTH - 1), core |-> Run("y", MAX_DESC_LENGTH - 1)],
         [raw |-> Run("y", MAX_DESC_LENGTH), core |-> Run("y", MAX_DESC_LENGTH)],
         [raw |-> Run(" ", 4) \o Run("y", MAX_DESC_LENGTH - 4),
          core |-> Run("y", MAX_DESC_LENGTH - 4)],
         [raw |-> Run(" ", 1) \o Run("y", MAX_DESC_LENGTH),
          core |-> Run("y", MAX_DESC_LENGTH)] }

\* An output line by its shape: path:num:rest, path:num, path, or nothing.
LineShapes == {"full", "norest", "nonum", "empty"}

LineOf(l) ==
    CASE l.shape = "full" ->
            l.path.text \o Txt(<<":">>) \o l.num.text \o Txt(<<":">>) \o l.rest.raw
      [] l.shape = "norest" -> l.path.text \o Txt(<<":">>) \o l.num.text
      [] l.shape = "nonum" -> l.path.text
      [] l.shape = "empty" -> <<>>

\* fetchItemsSearchContent(command, dir) has started the search process,
\* which writes one line.
InitExec ==
    /\ qValue = <<>>
    /\ qTokens = <<>>
    /\ qIndex = 0
    /\ qAcc = <<>>
    /\ execDir \in SearchDirs
    /\ parts \in [path : LinePaths, num : LineNums, rest : LineRests, shape : LineShapes]
    /\ stdout = LineOf(parts) \o Txt(<<"\n">>)
    /\ stderr \in BOOLEAN
    /\ settled = ""
    /\ resolved = <<>>
    /\ accepted = <<>>

\* The callback of cp.exec: the promise is rejected for the empty directory
\* and for output on stderr, and resolves to the items of the lines else.
ExecDone ==
    /\ settled = ""
    /\ parts # <<>>
    /\ IF execDir = <<>> \/ stderr
       THEN settled' = "rejected" /\ resolved' = <<>>
       ELSE settled' = "resolved" /\ resolved' = ParseOutput(stdout, execDir)
    /\ UNCHANGED <<qValue, qTokens, qIndex, qAcc, execDir, parts, stdout, stderr,
                   accepted>>
    /\ UNCHANGED nonParseVars

\* The description of the scrollback entries.
HistoryText == Txt(<<"H", "i", "s", "t", "o", "r", "y">>)

\* onDidAccept on one of the items the search has resolved to: an item whose
\* description is History has its label written to the input, another one
\* is recorded in the scrollback and opened at its line.
ExecAccept ==
    \E i \in 1..Len(resolved) :
        LET item == resolved[i]
        IN /\ accepted = <<>>
           /\ IF item.description = HistoryText
              THEN /\ accepted' = [value |-> item.label]
                   /\ UNCHANGED scrollBack
              ELSE /\ accepted' = [document |-> item.detail, line |-> item.num]
                   /\ scrollBack' = PushScrollBack(scrollBack, quickPickValue)
           /\ UNCHANGED <<qValue, qTokens, qIndex, qAcc, execDir, parts, stdout, stderr,
                          settled, resolved>>
           /\ UNCHANGED <<searchValue, searchItems, quickPickValue, dirs,
                          originalFileDirectory, searchFileNameOnly, quickPickButtons,
                          currentProcess, disposed, procs, gens, errorMessages,
                          lastWrite, timers, sinceChange, burst>>
           /\ UNCHANGED <<pinVars, navVars, moduleVars>>

NextExec == ExecDone \/ ExecAccept

InitContentSearch == InitSearch /\ InitModuleIdle /\ InitPinIdle /\ InitNavIdle /\ InitExec

SpecExec == InitContentSearch /\ [][NextExec]_vars

\* The promise has resolved for a line path:N:rest.
FullLineRead == settled = "resolved" /\ parts.shape = "full"

\* C20 as stated: a line path:N:rest with a number N >= 1 and a rest shorter
\* than the cap yields one item with num = N and a detail made of the
\* directory and the whole relative path; a line with no number, or with a
\* rest at or over the cap, yields none.
C20_LineYieldsItemForWholePath ==
    FullLineRead =>
        IF parts.num.n >= 1 /\ TxtLen(parts.rest.raw) < MAX_DESC_LENGTH
        THEN /\ Len(resolved) = 1
             /\ resolved[1].num = parts.num.n
             /\ resolved[1].detail \in { execDir \o parts.path.rel,
                                        execDir \o Txt(<<"/">>) \o parts.path.rel }
        ELSE (parts.num.n = -1 \/ TxtLen(parts.rest.raw) >= MAX_DESC_LENGTH)
                => resolved = <<>>

\* C20 amended: the cap applies to the rest without its outer white space,
\* and the detail is the directory followed by the path without its first
\* character (the search tool writes ./src/x.ts, so that the detail ends in
\* /src/x.ts).
C20_LineYieldsItem ==
    FullLineRead =>
        IF parts.num.n >= 1 /\ TxtLen(parts.rest.core) < MAX_DESC_LENGTH
        THEN /\ Len(resolved) = 1
             /\ resolved[1].num = parts.num.n
             /\ resolved[1].description = parts.rest.core
             /\ resolved[1].detail = execDir \o parts.path.tail
        ELSE (parts.num.n = -1 \/ TxtLen(parts.rest.core) >= MAX_DESC_LENGTH)
                => resolved = <<>>

\* The line ./src/x.ts:12:foo bar baz has yielded its item.
C20_Witness ==
    /\ FullLineRead
    /\ parts.path.text = Txt(<<".", "/">> \o SrcXTs)
    /\ parts.num.n = 12
    /\ TxtLen(parts.rest.raw) = 11
    /\ Len(resolved) = 1
    /\ resolved[1].num = 12
    /\ resolved[1].detail = Txt(<<"/", "d", "/">> \o SrcXTs)


----------------------------------------------------------------------------
\* ---- Accepting a search result

\* C21: the accept of a result that is no history entry puts the text that
\* the input holds at that moment at index 0 of the scrollback, also within
\* the debounce window of the last keystroke.
C21_AcceptRecordsInputText ==
    [][scrollBack' # scrollBack => scrollBack'[1] = searchValue]_vars


\* C22: an accepted item has its text replayed into the input if and only if
\* it is a scrollback entry; an item of a content search is opened as a file
\* whatever the text of its matched line.
C22_SearchResultIsOpened ==
    accepted # <<>> => "document" \in DOMAIN accepted


\* C23: in a session started in name mode or in content mode, each toggle of
\* the search mode flips the active command shape between name search and
\* content search, so that two toggles restore the original one.
C23_ToggleFlipsSearchMode ==
    [][quickPickButtons'[2] # quickPickButtons[2]
          => searchFileNameOnly' = ~searchFileNameOnly]_vars


----------------------------------------------------------------------------
\* ---- Accepting an item of the file browser

\* onDidAccept() has run an action of the menu in this step.
ActionAccepted ==
    /\ flow' # <<>>
    /\ flow'[1].stage = "stat"
    /\ flow = <<>> \/ flow[1].stage # "stat"

\* C24: from the start of a refresh until its items are populated the
\* picker is disabled, so that no accept is processed against the previous
\* item list.
C24_NoAcceptDuringRefresh ==
    [][ActionAccepted => updates = <<>> /\ enabled]_vars


\* C25: step-out while the path is at its top is a no-op: path, PathHistory,
\* item list, selection and the mode flags, inActions included, are
\* unchanged and no refresh is performed.
C25_StepOutAtTopIsNoOp ==
    [][(atTop(path) /\ BrowserStepOut)
          => UNCHANGED <<path, file, pathHistory, items, currentItems, activeItems,
                         inActions, write, updates, updateCount>>]_vars


\* The entries of the action menus that update() builds
MenuEntries ==
    {FileActions[i] : i \in 1..Len(FileActions)}
        \cup {FolderActions[i] : i \in 1..Len(FolderActions)}

\* The action menu is shown and onDidAccept runs for its focused entry.
MenuEntryAccepted ==
    /\ currentItems \in {FileActions, FolderActions}
    /\ activeItems # <<>>
    /\ activeItems[1] \in MenuEntries
    /\ BrowserAccept

\* C27: every entry of the file and directory action menus carries a tag
\* that is a member of the enumeration Action and that runAction handles,
\* copy-path included, so that the accept of a menu entry runs the effect of
\* its tag: it opens a file for the open-file entries only, and never
\* reaches the failure of an unhandled action.
C27_MenuEntryRunsItsAction ==
    [][MenuEntryAccepted =>
        /\ activeItems[1].action \in Action
        /\ (navDisposed' /\ ~navDisposed)
              => activeItems[1].action \in {"OpenFile", "OpenFileBeside"}
        /\ ran' # <<>> => ran'.call # "throw"]_vars


----------------------------------------------------------------------------
\* ---- Stepping out of a directory and back into it

\* The user acts while fewer than MaxInFlight refreshes are in flight.
Attentive == Len(updates) < MaxInFlight

\* The user focuses an entry of the listing.
FocusEntry == Attentive /\ ~inActions /\ BrowserSelect

\* A directory of the listing is focused.
DirectoryFocused ==
    ~inActions /\ activeItems # <<>> /\ activeItems[1].fileType = "Directory"

\* The user leaves the directory, and enters the focused one by the step-in
\* button, by accepting it, or by typing s/ for the directory /s of the top.
LeavesDirectory == Attentive /\ BrowserStepOut
StepsIntoDirectory == Attentive /\ DirectoryFocused /\ BrowserStepIn
AcceptsDirectory == Attentive /\ DirectoryFocused /\ BrowserAccept
TypesDirectory == Attentive /\ ChangeValue(<<"s", "/">>)

NextReturn ==
    \/ FocusEntry
    \/ LeavesDirectory
    \/ StepsIntoDirectory
    \/ AcceptsDirectory
    \/ TypesDirectory
    \/ BrowserEcho
    \/ StatDone
    \/ ReadDone

\* A session opened on /s with no entry to select.
InitReturn ==
    InitSearch /\ InitModuleIdle /\ InitPinIdle /\ InitNavAt(InitTree, <<S>>, {None})
        /\ InitParseIdle

SpecReturn == InitReturn /\ [][NextReturn]_vars

\* Step-out leaves the directory while the entry c of its listing is focused.
StepOutLeaves(c) ==
    /\ ~atTop(path)
    /\ ~inActions
    /\ activeItems = <<c>>
    /\ c \in {items[k] : k \in 1..Len(items)}
    /\ items = ReadDirectory(path)
    /\ BrowserStepOut

\* The refresh of the latest step into a directory, t, delivers its listing
\* with the path history holding the name of the entry c for it.
ReturnCompletes(t, c) ==
    /\ t.stage = "read"
    /\ t.by = "onDidChangeValue"
    /\ t.n = updateCount
    /\ path = t.p
    /\ HistoryAt(pathHistory, t.p) = Some(c.name)
    /\ c \in {ReadDirectory(t.p)[k] : k \in 1..Len(ReadDirectory(t.p))}
    /\ updates' = SelectSeq(updates, LAMBDA u : u # t)
    /\ ReadDone

\* What step-out records is kept until the next step-out.
HistoryKept ==
    /\ \A c \in {items[k] : k \in 1..Len(items)} :
          StepOutLeaves(c) => /\ path \in DOMAIN pathHistory'
                              /\ pathHistory'[path] = Some(c.name)
    /\ pathHistory' # pathHistory => BrowserStepOut

\* C26 as stated: when step-out has left the directory D with its child c
\* focused, the refresh of the next step into D, by step-in, accept or a
\* typed path, ends with c selected.
C26_ReturnSelectsFocusedChild ==
    [][/\ HistoryKept
       /\ \A t \in {updates[k] : k \in 1..Len(updates)} :
            \A c \in {ReadDirectory(t.p)[k] : k \in 1..Len(ReadDirectory(t.p))} :
                ReturnCompletes(t, c) => activeItems' = <<c>>]_vars

\* C26 amended: so it is in read mode; in write mode the refresh ends by
\* handling the empty input, which selects the entry that creates a file
\* named as the active document, or nothing.
C26_ReturnSelectsFocusedChildInReadMode ==
    [][/\ HistoryKept
       /\ \A t \in {updates[k] : k \in 1..Len(updates)} :
            \A c \in {ReadDirectory(t.p)[k] : k \in 1..Len(ReadDirectory(t.p))} :
                (~write /\ ReturnCompletes(t, c)) => activeItems' = <<c>>]_vars

\* In read mode t of /s was focused when step-out left /s, the navigator has
\* stepped into /s again, and that refresh has ended with t selected.
C26_Witness ==
    /\ ~write
    /\ path = <<S>>
    /\ HistoryAt(pathHistory, <<S>>) = Some(T)
    /\ updateCount = 3
    /\ updates = <<>>
    /\ itemsBy = "onDidChangeValue"
    /\ items = ReadDirectory(<<S>>)
    /\ activeItems = <<[name |-> T, fileType |-> "Directory", action |-> ""]>>


----------------------------------------------------------------------------
\* ---- Failures of the file system in runAction

\* In this step createDirectory, rename, delete, or the stat of the target of
\* a rename or delete, answers with a failure.
FileSystemFails ==
    IF flow = <<>> \/ flow' = <<>> \/ flow' = flow THEN FALSE
    ELSE /\ flow[1].kind \in {"NewFolder", "RenameFile", "DeleteFile"}
         /\ flow[1].stage \in {"mkdir", "stat", "fs"}
         /\ \/ flow'[1].failed
            \/ flow[1].stage = "stat" /\ Stat(flow[1].uri) = "None"

\* C28: a failure of create-directory, rename or delete at the file system,
\* a failing stat of their target included, is caught where the call is
\* made: the action ends, and the navigator is shown in Browsing with a
\* refresh started; the failure never escapes.
C28_FileSystemFailureIsCaught ==
    [][FileSystemFails =>
        /\ flow'[1].stage = "done"
        /\ visible'
        /\ ~inActions'
        /\ updateCount' = updateCount + 1]_vars


----------------------------------------------------------------------------
\* ---- Rename and delete of a path with no parent segment

\* The stat of a rename or delete answers while the path is at its top.
PopAtTop ==
    IF flow = <<>> THEN FALSE
    ELSE flow[1].stage = "stat" /\ atTop(path) /\ flow' # flow

\* A rename or delete has ended in a thrown failure.
HasThrown ==
    IF flow = <<>> THEN FALSE
    ELSE flow[1].kind \in {"RenameFile", "DeleteFile"} /\ flow[1].stage = "thrown"

\* C29: rename or delete on a path that has no parent segment raises a hard
\* failure before any prompt is shown, and performs no rename or delete on
\* the file system.
C29_NoParentIsHardFailure ==
    [][/\ PopAtTop => flow'[1].stage = "thrown" /\ fsTree' = fsTree
       /\ HasThrown => /\ fsTree' = fsTree
                       /\ flow' # flow => flow'[1].stage = "stat"]_vars

\* 'Rename this folder' was accepted for the top path, and the rename has
\* ended in the failure with the file system as it was.
C29_Witness ==
    /\ flow # <<>>
    /\ flow[1].kind = "RenameFile"
    /\ flow[1].stage = "thrown"
    /\ flow[1].uri = <<>>
    /\ Stat(<<>>) = "Directory"
    /\ atTop(path)
    /\ fsTree = InitTree


----------------------------------------------------------------------------
\* ---- Refreshing a target that does not exist

\* The user types n/, the path of a directory that does not exist, or the
\* name n while a refresh is in flight.
TypesMissingDirectory == Attentive /\ ChangeValue(<<"n", "/">>)
TypesDuringRefresh == updates # <<>> /\ Attentive /\ ChangeValue(<<"n">>)

NextCreate ==
    \/ TypesMissingDirectory
    \/ TypesDuringRefresh
    \/ LeavesDirectory
    \/ BrowserEcho
    \/ StatDone
    \/ ReadDone

\* A session opened on /.
InitCreate ==
    InitSearch /\ InitModuleIdle /\ InitPinIdle /\ InitNavAt(InitTree, <<>>, {None})
        /\ InitParseIdle

SpecCreate == InitCreate /\ [][NextCreate]_vars

\* In write mode the refresh t of a target that does not exist ends, with
\* the input empty as the refresh has made it.
MissingTargetRefreshed(t) ==
    /\ write
    /\ ~inActions
    /\ navValue = <<>>
    /\ t.stage = "stat"
    /\ Stat(t.p) = "None"
    /\ updates' = SelectSeq(updates, LAMBDA u : u # t)
    /\ StatDone

OpensMenu == Attentive /\ BrowserActions

\* A tab press while the action menu is shown, and one on a listing at rest
TabInMenu == inActions /\ BrowserTab
TabInListing == ~inActions /\ updates = <<>> /\ echoes = <<>> /\ BrowserTab

NextInMenu ==
    \/ FocusEntry
    \/ OpensMenu
    \/ BrowserType
    \/ BrowserEcho
    \/ TabInMenu
    \/ TabInListing
    \/ StatDone
    \/ ReadDone

\* A completion session in which the action menu can be opened.
SpecInMenu == InitCompletion /\ [][NextInMenu]_vars

\* The handlers of the input: a change event and a tab press
InputHandled == BrowserType \/ BrowserEcho
TabHandled == TabInMenu

\* C31: while the action menu is shown, the handler of a change of the input
\* and a tab press change nothing: the path, the items, the list shown, the
\* selection, the completion cursor, the flag isAutoCompleteChange, the
\* requested refreshes and inActions stay as they were, and a tab press
\* leaves the input value too.
C31_MenuIgnoresInputAndTab ==
    [][inActions =>
        /\ InputHandled \/ TabHandled =>
                UNCHANGED <<path, file, items, currentItems, activeItems,
                            autoCompletion, isAutoCompleteChange, inActions,
                            pathHistory, updates>>
        /\ TabHandled => navValue' = navValue]_vars

\* The menu is shown over a listing that had a completion cursor, its refresh
\* is over and the user has typed into it.
C31_Witness ==
    /\ inActions
    /\ autoCompletion # <<>>
    /\ updates = <<>>
    /\ items # <<>>
    /\ currentItems = items
    /\ navValue # <<>>


\* The change event of the value v is handled while browsing and v is the
\* name of an entry of the item list: the user typed v, or the picker reports
\* a write of v by the program.
NamesEntry(v) ==
    /\ ~inActions
    /\ v # <<>>
    /\ \E i \in 1..Len(items) : items[i].name = v
    /\ \/ ChangeValue(v)
       \/ echoes # <<>> /\ echoes[1].value = v /\ BrowserEcho

\* C32: when the input equals the name of an entry, the list shown is the
\* item list itself, with no synthetic entry before it, the entry of that
\* name is the one selected, and the item list, the path and the requested
\* refreshes stay as they are.
C32_ExistingNameSelectsEntry ==
    [][\A v \in TabValues : NamesEntry(v) =>
        /\ currentItems' = items
        /\ Len(activeItems') = 1
        /\ activeItems'[1].name = v
        /\ \E i \in 1..Len(items) : activeItems'[1] = items[i]
        /\ navValue' = v
        /\ items' = items
        /\ path' = path
        /\ updates' = updates]_vars

\* The input is the name of an entry of the listing on screen, and that
\* entry is the one selected.
C32_Witness ==
    /\ ~inActions
    /\ updates = <<>>
    /\ echoes = <<>>
    /\ navValue \in {F, S}
    /\ items = ReadDirectory(path)
    /\ currentItems = items
    /\ Len(activeItems) = 1
    /\ activeItems[1].name = navValue


\* No item matches the input: the candidates a first press would build, or
\* the ones of the cursor there is, are none.
NoCandidate ==
    IF autoCompletion = <<>> THEN Candidates(items, navValue) = <<>>
    ELSE autoCompletion[1].items = <<>>

\* The press has read `name` of items[-1], which is undefined: a TypeError.
TabHasThrown ==
    /\ autoCompletion # <<>>
    /\ ~autoCompletion[1].nan
    /\ autoCompletion[1].index < 0
    /\ autoCompletion[1].index < Len(autoCompletion[1].items)

\* C33: a tab press, forward or backward, when no item matches the input
\* raises no error and leaves the input value as it is, on the first press
\* and on every later one.
C33_TabWithoutMatchIsQuiet ==
    [][~inActions /\ NoCandidate /\ BrowserTab =>
        /\ navValue' = navValue
        /\ ~TabHasThrown']_vars


\* ---- The candidates of a first tab press
GF == <<"G", "f">>

\* A directory with names in both cases: the files /fg and /Gf and the
\* directory /s.
CaseTree ==
    [p \in {<<>>, <<FG>>, <<GF>>, <<S>>} |->
        IF p \in {<<FG>>, <<GF>>} THEN "File" ELSE "Directory"]

\* What the user types in these sessions: "", "g", "F".
CaseValues == { <<>>, <<"g">>, <<"F">> }

TypesInCase == \E v \in CaseValues : ChangeValue(v)

NextCase ==
    \/ TypesInCase
    \/ BrowserEcho
    \/ BrowserTab
    \/ StatDone
    \/ ReadDone

InitCase ==
    InitSearch /\ InitModuleIdle /\ InitPinIdle /\ InitNavOn(CaseTree)
        /\ InitParseIdle /\ ~write
        /\ file = None

SpecCase == InitCase /\ [][NextCase]_vars

\* The first press of a completion while browsing
FirstPress(tabNext) == ~inActions /\ autoCompletion = <<>> /\ Tab(tabNext)

\* The place of the first match of the input in a name, without regard to
\* case: the least i for which the input stands at i in the name.
MatchesAt(name, i) ==
    /\ i + Len(navValue) <= Len(name)
    /\ \A k \in 1..Len(navValue) : LowerChar(name[i + k]) = LowerChar(navValue[k])

Matches(name) == \E i \in 0..Len(name) : MatchesAt(name, i)

FirstMatch(name) ==
    CHOOSE i \in 0..Len(name) :
        MatchesAt(name, i) /\ \A j \in 0..(i - 1) : ~MatchesAt(name, j)

\* The order the candidates are to have: the earlier match first, and of
\* equal matches the lesser name without regard to case.
InOrder(a, b) ==
    \/ FirstMatch(a.name) < FirstMatch(b.name)
    \/ /\ FirstMatch(a.name) = FirstMatch(b.name)
       /\ ~NameLess(toLowerCase(b.name), toLowerCase(a.name))

\* C34: with no cursor, a tab press builds the candidates as exactly the
\* items whose name contains the input without regard to case, ordered by the
\* place of the first match and then by the name without regard to case; a
\* forward press starts at the first candidate and a backward press at the
\* last.
C34_FirstPressBuildsCandidates ==
    [][\A tabNext \in BOOLEAN : FirstPress(tabNext) =>
        /\ autoCompletion' # <<>>
        /\ LET found == autoCompletion'[1].items
           IN /\ \A i \in 1..Len(items) :
                    Matches(items[i].name) <=> \E k \in 1..Len(found) : found[k] = items[i]
              /\ \A k \in 1..Len(found) : \E i \in 1..Len(items) : found[k] = items[i]
              /\ \A j, k \in 1..Len(found) : j < k =>
                    found[j] # found[k] /\ InOrder(found[j], found[k])
              /\ autoCompletion'[1].index = IF tabNext THEN 0 ELSE Len(found) - 1
              /\ found # <<>> => navValue' = Shown(autoCompletion'[1])]_vars

\* The input g has both Gf and fg as candidates, Gf first, and a backward
\* press has started at fg.
C34_Witness ==
    /\ ~inActions
    /\ autoCompletion # <<>>
    /\ Len(autoCompletion[1].items) = 2
    /\ autoCompletion[1].items[1].name = GF
    /\ autoCompletion[1].items[2].name = FG
    /\ autoCompletion[1].index = 1
    /\ navValue = FG


----------------------------------------------------------------------------
\* ---- The pinned entries of the action menu
A == <<"a">>
B == <<"b">>
C == <<"c">>

\* The file system of the sessions with pins: the directories /a and /a/b and
\* the file /c.
PinTree ==
    [p \in {<<>>, <<A>>, <<A, B>>, <<C>>} |-> IF p = <<C>> THEN "File" ELSE "Directory"]

\* The persisted list such a session finds: the key not set, or /c and /a/b
\* pinned.
InitPins ==
    /\ cloneOnUpdate \in BOOLEAN
    /\ \/ heap = <<>> /\ store = 0
       \/ heap = << <<[fsPath |-> "/c", type |-> "File"],
                      [fsPath |-> "/a/b", type |-> "Directory"]>> >> /\ store = 1
    /\ toggles = <<>>
    /\ pair = NoPair
    /\ duo = NoDuo

\* No refresh is in flight, and at most one togglePin of a close button has
\* its refresh to come: the user of these sessions acts on what the last
\* refresh has shown.
Calm == Len(updates) <= 1 /\ \A i \in 1..Len(updates) : updates[i].stage = "toggle"

\* The user opens the action menu, and leaves a menu or a directory.
OpensPinMenu == Calm /\ BrowserActions
LeavesPinMenu == Calm /\ BrowserStepOut

\* The user focuses an entry of a listing, or the Pin entry, a pinned entry,
\* the rename entry or the delete entry of an action menu.
FocusPinEntry ==
    /\ Calm
    /\ BrowserSelect
    /\ activeItems'[1].action \in {"", "Pin", "OpenPin", "RenameFile", "DeleteFile"}

\* The user accepts the rename entry or the delete entry.
RenamesOrDeletes == Calm /\ AcceptRenameOrDelete

\* onDidTriggerItemButton(e) for the close button of the pinned entry i:
\* togglePin(path) up to its first suspension; update() is to follow when
\* the promise of togglePin has resolved.
TriggerItemButton ==
    \E i \in 1..Len(currentItems) :
        /\ visible
        /\ Calm
        /\ toggles = <<>>
        /\ currentItems[i].action = "OpenPin"
        /\ LET to == fromFilePath(Chars(currentItems[i].arg.fsPath))
           IN /\ TogglePinCore(fsPath(to), "onDidTriggerItemButton")
              /\ UNCHANGED <<pair, duo>>
              /\ updates' = Append(updates,
                                [stage |-> "toggle", p |-> to,
                                 by |-> "onDidTriggerItemButton", andThen |-> "",
                                 rest |-> <<>>, n |-> 0])
        /\ UNCHANGED <<path, file, items, currentItems, activeItems, navValue,
                       inActions, pathHistory, write, autoCompletion,
                       isAutoCompleteChange, lastNav, itemsBy, updateCount, fsTree,
                       keepAlive, visible, hidePending, navDisposed, flow, echoes,
                       ran>>
        /\ UNCHANGED <<searchVars, parseVars, moduleVars>>

\* The promise of a togglePin of the close button has resolved: update(). On
\* a picker that is disposed nothing of it shows.
TogglePinThen ==
    \E i \in 1..Len(updates) :
        /\ updates[i].stage = "toggle"
        /\ \A k \in 1..Len(toggles) :
                ~(toggles[k].by = "onDidTriggerItemButton"
                    /\ toggles[k].path = fsPath(updates[i].p))
        /\ LET st == [NavState EXCEPT !.updates = RemoveAt(@, i)]
           IN IF navDisposed THEN Commit(st)
              ELSE Commit(update(st, "onDidTriggerItemButton", "", <<>>))
        /\ UNCHANGED nonNavVars

\* A togglePin for the pinned entries too
TogglesPinOnOpen(item) == item.action \in {"Pin", "OpenPin"}

\* The entries whose action calls togglePin
TogglesPin(item) == item.action = "Pin"

\* onDidAccept() on the Pin entry or on a pinned entry of the menu
AcceptsPinEntry ==
    \E cur \in EditorFiles, ok \in BOOLEAN :
        /\ visible
        /\ enabled
        /\ FlowIdle
        /\ Calm
        /\ activeItems # <<>>
        /\ activeItems[1].action \in {"Pin", "OpenPin"}
        /\ toggles = <<>>
        /\ HasFsPath(path)
        /\ onDidAccept(NavState, cur, ok)
        /\ IF TogglesPin(activeItems[1])
           THEN TogglePinCore(fsPath(path), "runAction") /\ UNCHANGED <<pair, duo>>
           ELSE UNCHANGED pinVars
        /\ UNCHANGED <<searchVars, parseVars, moduleVars>>

NextPins ==
    \/ FocusPinEntry
    \/ OpensPinMenu
    \/ LeavesPinMenu
    \/ TriggerItemButton
    \/ TogglePinThen
    \/ TogglePinResume
    \/ AcceptsPinEntry
    \/ RenamesOrDeletes
    \/ FlowStat
    \/ FlowPrompt
    \/ FlowFileOperation
    \/ BrowserOnDidHide
    \/ StatDone
    \/ ReadDone

\* A session in read mode opened on /a, with pins or without.
InitPinsSession ==
    InitSearch /\ InitModuleIdle /\ InitPins /\ InitNavAt(PinTree, <<A>>, {None})
        /\ InitParseIdle
        /\ ~write

SpecPins == InitPinsSession /\ [][NextPins]_vars

\* C36: a togglePin that the close button of a pinned entry started never
\* adds an entry to the pinned list, also when the button of one entry is
\* triggered twice before the menu has been refreshed.
C36_CloseButtonNeverAdds ==
    [][\A i \in 1..Len(toggles) :
        toggles[i].by = "onDidTriggerItemButton" /\ TogglePinResumeAt(i) =>
            ~(Present(StoreList', toggles[i].path)
                /\ ~Present(StoreList, toggles[i].path))]_vars


\* A step of togglePin: the Pin entry is accepted, the close button of a
\* pinned entry is triggered, or a suspended togglePin resumes.
PinToggled ==
    \/ TriggerItemButton
    \/ TogglePinResume
    \/ AcceptsPinEntry /\ activeItems[1].action = "Pin"

\* C35: the pinned list changes only in a step of togglePin, which the Pin
\* action and the close button of a pinned entry call; accepting a pinned
\* entry, navigating, renaming and deleting leave it as it is.
C35_OnlyTogglePinChangesPins ==
    [][StoreList' # StoreList => PinToggled]_vars

\* The pinned directory /a/b has been opened from the menu and listed, and
\* the list of pins is the one the session found.
C35_Witness ==
    /\ path = <<A, B>>
    /\ ~inActions
    /\ itemsBy = "runAction"
    /\ updates = <<>>
    /\ Present(StoreList, "/a/b")
    /\ toggles = <<>>


\* C37: from browsing in a directory, opening the action menu, with an entry
\* focused or with none, and then stepping out leaves the navigator browsing
\* in that same directory with inActions = false.
C37_MenuThenStepOutReturns ==
    [][~inActions /\ BrowserActions =>
        /\ stepOut(NavState').path = path
        /\ ~stepOut(NavState').inActions]_vars


----------------------------------------------------------------------------
\* ---- The browsers of the module and its reference `active`
MaxBrowsers == 3

\* The command file-browser.open, or file-browser.write: the constructor of
\* the new browser calls update(), which shows its picker at once; the host
\* shows one picker at a time and hides the one that was on screen, whose
\* hide event arrives after the command has returned. The new browser is
\* stored in `active`.
OpenBrowser ==
    \E w \in BOOLEAN :
        /\ Len(browsers) < MaxBrowsers
        /\ browsers' = Append([i \in 1..Len(browsers) |->
                                  IF browsers[i].stage = "shown"
                                  THEN [browsers[i] EXCEPT !.stage = "hiding"]
                                  ELSE browsers[i]],
                              [stage |-> "shown", write |-> w])
        /\ activeBrowser' = Len(browsers) + 1
        /\ UNCHANGED nonModuleVars

\* The user closes the picker of browser i.
CloseBrowser ==
    \E i \in 1..Len(browsers) :
        /\ browsers[i].stage = "shown"
        /\ browsers' = [browsers EXCEPT ![i].stage = "hiding"]
        /\ UNCHANGED activeBrowser
        /\ UNCHANGED nonModuleVars

\* onDidHide of the picker of browser i, which does not keep alive:
\* dispose(), which ends with `active = None`.
BrowserHidden ==
    \E i \in 1..Len(browsers) :
        /\ browsers[i].stage = "hiding"
        /\ browsers' = [browsers EXCEPT ![i].stage = "disposed"]
        /\ activeBrowser' = 0
        /\ UNCHANGED nonModuleVars

NextModule == OpenBrowser \/ CloseBrowser \/ BrowserHidden

InitModule == InitSearch /\ InitModuleIdle /\ InitPinIdle /\ InitNavIdle /\ InitParseIdle

SpecModule == InitModule /\ [][NextModule]_vars

\* C38: a browser that is open when every other one has been disposed is the
\* one that `active` designates; so it is for a browser that was opened
\* while an older one was on screen, once the hide event of the older one
\* has disposed it.
C38_OpenBrowserIsActive ==
    \A i \in 1..Len(browsers) :
        /\ browsers[i].stage = "shown"
        /\ \A j \in 1..Len(browsers) : j # i => browsers[j].stage = "disposed"
        => activeBrowser = i

====
